---- MODULE Spec2Model ----
(***************************************************************************)
(* Model of the token codec (class JWT, src/unnamed/part_010) of           *)
(* whendy2025: construction, generate and verify, down to the characters   *)
(* of the token; and of its sessions: the cookie codec and the in-memory   *)
(* store (src/backend/Memory.ts) and the session manager                   *)
(* (src/backend/Manager.ts), down to the characters of the Cookie and      *)
(* Set-Cookie headers.                                                     *)
(*                                                                         *)
(* Specifications: Spec, SpecForeign, SpecTamper and SpecKeys run the     *)
(* token codec; SpecSessions runs one session manager over its requests,   *)
(* SpecLoop the loop of start under a fair random source, SpecStore the    *)
(* store alone, SpecSession the operations of a Session, SpecRegistry the  *)
(* registry and the construction of managers, SpecCookies the cookie       *)
(* codec on its own, and SpecRequests several requests in flight.          *)
(*                                                                         *)
(* Text is a sequence of one-character strings.  JavaScript values are     *)
(* records [t, n, s, m]: t is the type tag, n the number, s the string,    *)
(* m the members of an object (a sequence of [k, v], in property order).   *)
(* An optional field (a JavaScript value that may be undefined) is a       *)
(* sequence: <<>> is undefined, <<v>> holds v.                             *)
(*                                                                         *)
(* Collaborators of the codec that are not code of the repository:         *)
(*  - Buffer's base64url codec is modelled bit by bit, with the decoder's  *)
(*    leniency (both alphabets, illegal characters skipped, '=' ends the   *)
(*    input, unused trailing bits dropped);                                *)
(*  - JSON.stringify / JSON.parse are modelled on text without white       *)
(*    space, for null, booleans, integers, strings and objects of these;   *)
(*  - HMAC-SHA256 is a keyed 16-bit polynomial digest: like the 32-byte    *)
(*    digest it has a length of 2 modulo 3, so its last base64url          *)
(*    character carries four bits of digest and two unused bits, and no    *)
(*    two messages that differ in one character share a digest;            *)
(*  - a plain object ({}) is its own members and the names it inherits     *)
(*    from Object.prototype;                                               *)
(*  - a Date is held in whole seconds since the epoch;                     *)
(*  - randomBytes gives any of the byte strings of RandomBytes, at every   *)
(*    call;                                                                *)
(*  - the callbacks of requests run one at a time and give way only at an  *)
(*    await (the event loop of Node.js).                                   *)
(***************************************************************************)
EXTENDS Integers, Sequences, FiniteSets, TLC

(***************************************************************************)
(* Characters                                                              *)
(***************************************************************************)
\* The printable ASCII characters, in code order from 32 (space) to 126
\* ("<grave>" stands for the grave accent, code 96).
Ascii ==
  << " ", "!", "\"", "#", "$", "%", "&", "'", "(", ")", "*", "+", ",", "-", ".", "/",
     "0", "1", "2", "3", "4", "5", "6", "7", "8", "9", ":", ";", "<", "=", ">", "?",
     "@", "A", "B", "C", "D", "E", "F", "G", "H", "I", "J", "K", "L", "M", "N", "O",
     "P", "Q", "R", "S", "T", "U", "V", "W", "X", "Y", "Z", "[", "\\", "]", "^", "_",
     "<grave>", "a", "b", "c", "d", "e", "f", "g", "h", "i", "j", "k", "l", "m", "n", "o",
     "p", "q", "r", "s", "t", "u", "v", "w", "x", "y", "z", "{", "|", "}", "~" >>

AsciiChars == { Ascii[i] : i \in 1..Len(Ascii) }

\* A character that is not printable ASCII (what a byte outside 32..126 decodes to).
BadChar == "<?>"

CodeOf == [ c \in AsciiChars |-> 31 + (CHOOSE i \in 1..Len(Ascii) : Ascii[i] = c) ]

\* Buffer.from(text): the UTF-8 bytes of a text (ASCII text in this model).
Utf8Bytes(text) == [ i \in 1..Len(text) |-> IF text[i] \in AsciiChars THEN CodeOf[text[i]] ELSE 63 ]

\* Buffer.toString("utf8")
Utf8String(bytes) ==
  [ i \in 1..Len(bytes) |->
      IF bytes[i] >= 32 /\ bytes[i] <= 126 THEN Ascii[bytes[i] - 31] ELSE BadChar ]

(***************************************************************************)
(* base64url                                                               *)
(***************************************************************************)
B64 ==
  << "A", "B", "C", "D", "E", "F", "G", "H", "I", "J", "K", "L", "M", "N", "O", "P",
     "Q", "R", "S", "T", "U", "V", "W", "X", "Y", "Z", "a", "b", "c", "d", "e", "f",
     "g", "h", "i", "j", "k", "l", "m", "n", "o", "p", "q", "r", "s", "t", "u", "v",
     "w", "x", "y", "z", "0", "1", "2", "3", "4", "5", "6", "7", "8", "9", "-", "_" >>

B64Chars == { B64[i] : i \in 1..Len(B64) }

\* The decoder's table: the value of a character, 64 for an illegal one.  The
\* decoder reads the characters of both alphabets ('+' as '-', '/' as '_').
Unbase64 ==
  [ c \in AsciiChars \cup {BadChar} |->
      IF c \in B64Chars THEN (CHOOSE i \in 1..Len(B64) : B64[i] = c) - 1
      ELSE IF c = "+" THEN 62
      ELSE IF c = "/" THEN 63
      ELSE 64 ]

\* The byte at 1-based position i, 0 past the end.
ByteAt(b, i) == IF i <= Len(b) THEN b[i] ELSE 0

\* Buffer.toString("base64url"): each three bytes give four characters; a rest
\* of one byte gives two and a rest of two gives three, with no padding.
EncodeBytes(b) ==
  LET n == (4 * (Len(b) \div 3)) + (IF Len(b) % 3 = 0 THEN 0 ELSE (Len(b) % 3) + 1)
  IN  [ i \in 1..n |->
        LET g  == (i - 1) \div 4
            b1 == ByteAt(b, (3 * g) + 1)
            b2 == ByteAt(b, (3 * g) + 2)
            b3 == ByteAt(b, (3 * g) + 3)
        IN  CASE (i - 1) % 4 = 0 -> B64[(b1 \div 4) + 1]
              [] (i - 1) % 4 = 1 -> B64[((b1 % 4) * 16) + (b2 \div 16) + 1]
              [] (i - 1) % 4 = 2 -> B64[((b2 % 16) * 4) + (b3 \div 64) + 1]
              [] OTHER           -> B64[(b3 % 64) + 1] ]

\* The six-bit values the decoder reads: '=' ends the input and illegal
\* characters are skipped.
Sextets(text) ==
  LET stops == { i \in 1..Len(text) : text[i] = "=" }
      end   == IF stops = {} THEN Len(text)
               ELSE (CHOOSE i \in stops : \A j \in stops : i <= j) - 1
      kept  == SelectSeq(SubSeq(text, 1, end), LAMBDA c : Unbase64[c] < 64)
  IN  [ i \in 1..Len(kept) |-> Unbase64[kept[i]] ]

\* Each four sextets give three bytes; a rest of two gives one byte, a rest of
\* three gives two bytes, and the bits left over are dropped.
DecodeSextets(x) ==
  LET n == (3 * (Len(x) \div 4)) + (IF Len(x) % 4 = 0 THEN 0 ELSE (Len(x) % 4) - 1)
  IN  [ j \in 1..n |->
        LET g == (j - 1) \div 3
            x1 == x[(4 * g) + 1]
            x2 == x[(4 * g) + 2]
        IN  CASE (j - 1) % 3 = 0 -> (x1 * 4) + (x2 \div 16)
              [] (j - 1) % 3 = 1 -> ((x2 % 16) * 16) + (x[(4 * g) + 3] \div 4)
              [] OTHER           -> ((x[(4 * g) + 3] % 4) * 64) + x[(4 * g) + 4] ]

\* Buffer.from(text, "base64url")
DecodeBytes(text) == DecodeSextets(Sextets(text))

\* function base64Encode(msg)
base64Encode(msg) == EncodeBytes(Utf8Bytes(msg))

(***************************************************************************)
(* The keyed digest                                                        *)
(***************************************************************************)
RECURSIVE Digest(_, _)
\* h * 31 + code, modulo 2^16, over the characters of text from left to right
\* (computed by halves).
Digest(h, text) ==
  IF Len(text) = 0 THEN h
  ELSE IF Len(text) = 1 THEN
    ((h * 31) + (IF text[1] \in AsciiChars THEN CodeOf[text[1]] ELSE 63)) % 65536
  ELSE LET left == Digest(h, SubSeq(text, 1, Len(text) \div 2))
       IN  IF left >= 0
           THEN Digest(left, SubSeq(text, (Len(text) \div 2) + 1, Len(text)))
           ELSE 0

\* createHmac("sha256", key).update(msg).digest(): the digest's bytes.
Hmac(key, msg) ==
  LET h == Digest(Digest(Len(key), key), msg)
  IN  << h \div 256, h % 256 >>

(***************************************************************************)
(* JavaScript values                                                       *)
(***************************************************************************)
JNum(n)  == [t |-> "number", n |-> n, s |-> <<>>, m |-> <<>>]
JStr(s)  == [t |-> "string", n |-> 0, s |-> s, m |-> <<>>]
JBool(b) == [t |-> "boolean", n |-> IF b THEN 1 ELSE 0, s |-> <<>>, m |-> <<>>]
JObj(m)  == [t |-> "object", n |-> 0, s |-> <<>>, m |-> m]
JNull    == [t |-> "null", n |-> 0, s |-> <<>>, m |-> <<>>]
JUndef   == [t |-> "undefined", n |-> 0, s |-> <<>>, m |-> <<>>]
\* A member value that refers back to the object holding it.
JCycle   == [t |-> "cycle", n |-> 0, s |-> <<>>, m |-> <<>>]

HasKey(m, k) == \E i \in 1..Len(m) : m[i].k = k

\* obj.k: the member's value, undefined when there is none.
Prop(m, k) ==
  IF HasKey(m, k) THEN m[CHOOSE i \in 1..Len(m) : m[i].k = k].v ELSE JUndef

\* obj.k = v: an existing property keeps its place, a new one goes last.
Put(m, k, v) ==
  IF HasKey(m, k)
  THEN [ i \in 1..Len(m) |-> IF m[i].k = k THEN [k |-> k, v |-> v] ELSE m[i] ]
  ELSE Append(m, [k |-> k, v |-> v])

\* {...x}: the own properties of x, none for null and undefined.
Spread(x) == IF x.t = "object" THEN x.m ELSE <<>>

\* The truthiness of a value in a condition.
Truthy(x) ==
  CASE x.t = "number"  -> x.n # 0
    [] x.t = "string"  -> Len(x.s) > 0
    [] x.t = "boolean" -> x.n = 1
    [] x.t = "object"  -> TRUE
    [] x.t = "cycle"   -> TRUE
    [] OTHER           -> FALSE

Digit == << "0", "1", "2", "3", "4", "5", "6", "7", "8", "9" >>
DigitChars == { Digit[i] : i \in 1..Len(Digit) }
DigitValue(c) == (CHOOSE i \in 1..Len(Digit) : Digit[i] = c) - 1

RECURSIVE Digits(_)
Digits(n) == IF n < 10 THEN <<Digit[n + 1]>> ELSE Digits(n \div 10) \o <<Digit[(n % 10) + 1]>>

\* String(n) of an integer
NumberText(n) == IF n < 0 THEN <<"-">> \o Digits(0 - n) ELSE Digits(n)

(***************************************************************************)
(* JSON.stringify                                                          *)
(***************************************************************************)
RECURSIVE Escape(_)
Escape(s) ==
  IF Len(s) = 0 THEN <<>>
  ELSE IF s[1] = "\"" \/ s[1] = "\\" THEN <<"\\", s[1]>> \o Escape(Tail(s))
  ELSE <<s[1]>> \o Escape(Tail(s))

Quote(s) == <<"\"">> \o Escape(s) \o <<"\"">>

RECURSIVE Stringify(_)
RECURSIVE StringifyMembers(_, _)
\* JSON.stringify(x): [ok, text]; not ok is the TypeError of a circular structure.
Stringify(x) ==
  CASE x.t = "number"  -> [ok |-> TRUE, text |-> NumberText(x.n)]
    [] x.t = "string"  -> [ok |-> TRUE, text |-> Quote(x.s)]
    [] x.t = "boolean" -> [ok |-> TRUE, text |-> IF x.n = 1 THEN <<"t", "r", "u", "e">>
                                                  ELSE <<"f", "a", "l", "s", "e">>]
    [] x.t = "null"    -> [ok |-> TRUE, text |-> <<"n", "u", "l", "l">>]
    [] x.t = "object"  ->
         LET r == StringifyMembers(x.m, TRUE)
         IN  [ok |-> r.ok, text |-> <<"{">> \o r.text \o <<"}">>]
    [] OTHER           -> [ok |-> FALSE, text |-> <<>>]

\* The members in property order; one whose value is undefined is left out.
StringifyMembers(m, first) ==
  IF Len(m) = 0 THEN [ok |-> TRUE, text |-> <<>>]
  ELSE IF m[1].v.t = "undefined" THEN StringifyMembers(Tail(m), first)
  ELSE
    LET v    == Stringify(m[1].v)
        rest == StringifyMembers(Tail(m), FALSE)
    IN  [ok   |-> v.ok /\ rest.ok,
         text |-> (IF first THEN <<>> ELSE <<",">>) \o Quote(m[1].k) \o <<":">>
                    \o v.text \o rest.text]

(***************************************************************************)
(* JSON.parse                                                              *)
(***************************************************************************)
ParseFail == [ok |-> FALSE, v |-> JNull, pos |-> 0]
ParseOk(v, pos) == [ok |-> TRUE, v |-> v, pos |-> pos]

At(s, i) == IF i >= 1 /\ i <= Len(s) THEN s[i] ELSE BadChar

Literal(s, i, word) ==
  /\ i + Len(word) - 1 <= Len(s)
  /\ SubSeq(s, i, i + Len(word) - 1) = word

RECURSIVE ScanString(_, _, _)
\* The characters after an opening quote, up to the closing one.
ScanString(s, i, acc) ==
  LET c == At(s, i)
  IN  IF c = BadChar THEN ParseFail
      ELSE IF c = "\"" THEN ParseOk(JStr(acc), i + 1)
      ELSE IF c = "\\" THEN
        IF At(s, i + 1) = "\"" \/ At(s, i + 1) = "\\"
        THEN ScanString(s, i + 2, Append(acc, s[i + 1]))
        ELSE ParseFail
      ELSE ScanString(s, i + 1, Append(acc, c))

RECURSIVE ScanDigits(_, _, _)
ScanDigits(s, i, n) ==
  IF At(s, i) \in DigitChars THEN ScanDigits(s, i + 1, (n * 10) + DigitValue(s[i]))
  ELSE [n |-> n, pos |-> i]

\* An integer: an optional sign, then 0 or a digit string that does not start with 0.
ScanNumber(s, i) ==
  LET neg   == At(s, i) = "-"
      start == IF neg THEN i + 1 ELSE i
      d     == ScanDigits(s, start, 0)
  IN  IF At(s, start) \notin DigitChars THEN ParseFail
      ELSE IF At(s, start) = "0" /\ d.pos > start + 1 THEN ParseFail
      ELSE ParseOk(JNum(IF neg THEN 0 - d.n ELSE d.n), d.pos)

RECURSIVE ParseValue(_, _)
RECURSIVE ParseMembers(_, _, _)
ParseValue(s, i) ==
  LET c == At(s, i)
  IN  CASE c = "{"  -> IF At(s, i + 1) = "}" THEN ParseOk(JObj(<<>>), i + 2)
                       ELSE ParseMembers(s, i + 1, <<>>)
        [] c = "\"" -> ScanString(s, i + 1, <<>>)
        [] c = "-" \/ c \in DigitChars -> ScanNumber(s, i)
        [] c = "n"  -> IF Literal(s, i, <<"n", "u", "l", "l">>)
                       THEN ParseOk(JNull, i + 4) ELSE ParseFail
        [] c = "t"  -> IF Literal(s, i, <<"t", "r", "u", "e">>)
                       THEN ParseOk(JBool(TRUE), i + 4) ELSE ParseFail
        [] c = "f"  -> IF Literal(s, i, <<"f", "a", "l", "s", "e">>)
                       THEN ParseOk(JBool(FALSE), i + 5) ELSE ParseFail
        [] OTHER    -> ParseFail

\* "key":value, then ',' and the next member or '}'.
ParseMembers(s, i, m) ==
  IF At(s, i) # "\"" THEN ParseFail
  ELSE
    LET k == ScanString(s, i + 1, <<>>)
    IN  IF ~k.ok \/ At(s, k.pos) # ":" THEN ParseFail
        ELSE
          LET v == ParseValue(s, k.pos + 1)
          IN  IF ~v.ok THEN ParseFail
              ELSE IF At(s, v.pos) = "," THEN ParseMembers(s, v.pos + 1, Put(m, k.v.s, v.v))
              ELSE IF At(s, v.pos) = "}" THEN ParseOk(JObj(Put(m, k.v.s, v.v)), v.pos + 1)
              ELSE ParseFail

\* JSON.parse(text): [ok, v]; not ok is the SyntaxError.
JsonParse(s) ==
  LET r == ParseValue(s, 1)
  IN  IF r.ok /\ r.pos = Len(s) + 1 THEN [ok |-> TRUE, v |-> r.v]
      ELSE [ok |-> FALSE, v |-> JNull]

(***************************************************************************)
(* class JWT                                                               *)
(***************************************************************************)
\* An optional value: <<>> is undefined.
Undefined == <<>>
Some(v) == <<v>>
IsDefined(o) == Len(o) > 0

Alg == <<"a", "l", "g">>
Typ == <<"t", "y", "p">>
Iat == <<"i", "a", "t">>
Exp == <<"e", "x", "p">>
Iss == <<"i", "s", "s">>
Aud == <<"a", "u", "d">>

\* private header = { alg: "HS256", typ: "JWT" }
DefaultHeader ==
  << [k |-> Alg, v |-> JStr(<<"H", "S", "2", "5", "6">>)],
     [k |-> Typ, v |-> JStr(<<"J", "W", "T">>)] >>

\* private key = "your-256-bit-secret"
DefaultKey ==
  << "y", "o", "u", "r", "-", "2", "5", "6", "-", "b", "i", "t", "-",
     "s", "e", "c", "r", "e", "t" >>

MinKeyLength == 32

KeyError == "La clave debe tener al menos 32 caracteres."

RECURSIVE Assign(_, _)
\* { ...a, ...b }
Assign(a, b) == IF Len(b) = 0 THEN a ELSE Assign(Put(a, b[1].k, b[1].v), Tail(b))

\* The fields of a new instance after the options are read (lines 37-43).
Fields(opt) ==
  IF ~IsDefined(opt)
  THEN [header |-> DefaultHeader, key |-> DefaultKey, expiresIn |-> Undefined,
        issuer |-> Undefined, audience |-> Undefined]
  ELSE LET o == opt[1]
       IN  [header    |-> IF IsDefined(o.header) THEN Assign(DefaultHeader, o.header[1])
                          ELSE DefaultHeader,
            key       |-> IF IsDefined(o.key) THEN o.key[1] ELSE DefaultKey,
            expiresIn |-> o.expiresIn,
            issuer    |-> o.issuer,
            audience  |-> o.audience]

\* The check with the limit itself refused.
KeyRejectedOffByOne(key) == Len(key) = 0 \/ Len(key) <= MinKeyLength

\* if (!this.key || this.key.length < 32)
KeyRejected(key) == Len(key) = 0 \/ Len(key) < MinKeyLength

\* new JWT(opt): the instance, or the error thrown.
Constructor(opt) ==
  LET this == Fields(opt)
  IN  IF KeyRejected(this.key)
      THEN [ok |-> FALSE, this |-> Undefined, error |-> KeyError]
      ELSE [ok |-> TRUE, this |-> Some(this), error |-> ""]

\* A signature that does not depend on the key.
getSignatureAnyKey(this, msg) == EncodeBytes(Hmac(<<>>, msg))

\* getSignature(msg)
getSignature(this, msg) == EncodeBytes(Hmac(this.key, msg))

\* The truthiness of an optional number / an optional string field.
TruthyNumber(o) == IsDefined(o) /\ o[1] # 0
TruthyString(o) == IsDefined(o) /\ Len(o[1]) > 0

\* finalPayload with the spread after iat: { iat: now, ...payload }
FinalPayloadCallerWins(this, payload, now) ==
  LET p0 == Assign(<<[k |-> Iat, v |-> JNum(now)]>>, Spread(payload))
      p1 == IF TruthyNumber(this.expiresIn)
            THEN Put(p0, Exp, JNum(now + this.expiresIn[1])) ELSE p0
      p2 == IF TruthyString(this.issuer) THEN Put(p1, Iss, JStr(this.issuer[1])) ELSE p1
      p3 == IF TruthyString(this.audience) THEN Put(p2, Aud, JStr(this.audience[1])) ELSE p2
  IN  p3

\* finalPayload with exp added whenever expiresIn is not undefined
FinalPayloadExpIfDefined(this, payload, now) ==
  LET p0 == Put(Spread(payload), Iat, JNum(now))
      p1 == IF IsDefined(this.expiresIn)
            THEN Put(p0, Exp, JNum(now + this.expiresIn[1])) ELSE p0
      p2 == IF TruthyString(this.issuer) THEN Put(p1, Iss, JStr(this.issuer[1])) ELSE p1
      p3 == IF TruthyString(this.audience) THEN Put(p2, Aud, JStr(this.audience[1])) ELSE p2
  IN  p3

\* finalPayload of generate (lines 99-120)
FinalPayload(this, payload, now) ==
  LET p0 == Put(Spread(payload), Iat, JNum(now))
      p1 == IF TruthyNumber(this.expiresIn)
            THEN Put(p0, Exp, JNum(now + this.expiresIn[1])) ELSE p0
      p2 == IF TruthyString(this.issuer) THEN Put(p1, Iss, JStr(this.issuer[1])) ELSE p1
      p3 == IF TruthyString(this.audience) THEN Put(p2, Aud, JStr(this.audience[1])) ELSE p2
  IN  p3

GenerateError == "Error generando JWT"
CircularError == "Converting circular structure to JSON"

\* generate without the catch: what was serialized is signed and returned.
generateUncaught(this, payload, ms) ==
  LET now     == ms \div 1000
      final   == FinalPayload(this, payload, now)
      header  == base64Encode(Stringify(JObj(this.header)).text)
      encoded == base64Encode(Stringify(JObj(final)).text)
      sig     == getSignature(this, header \o <<".">> \o encoded)
  IN  [kind |-> "return", token |-> header \o <<".">> \o encoded \o <<".">> \o sig,
       error |-> "", cause |-> ""]

\* generate(payload) at clock time ms: the token returned, or the error thrown.
generate(this, payload, ms) ==
  LET now     == ms \div 1000
      final   == FinalPayload(this, payload, now)
      header  == base64Encode(Stringify(JObj(this.header)).text)
      body    == Stringify(JObj(final))
      encoded == base64Encode(body.text)
      sig     == getSignature(this, header \o <<".">> \o encoded)
  IN  IF body.ok
      THEN [kind |-> "return", token |-> header \o <<".">> \o encoded \o <<".">> \o sig,
            error |-> "", cause |-> ""]
      ELSE [kind |-> "throw", token |-> <<>>,
            error |-> GenerateError, cause |-> CircularError]

RECURSIVE Split(_, _)
\* text.split(sep)
Split(text, sep) ==
  IF \A i \in 1..Len(text) : text[i] # sep THEN <<text>>
  ELSE LET i == CHOOSE j \in 1..Len(text) :
                  text[j] = sep /\ \A h \in 1..(j - 1) : text[h] # sep
       IN  <<SubSeq(text, 1, i - 1)>> \o Split(SubSeq(text, i + 1, Len(text)), sep)

\* A comparison that stops after the first byte.
firstByteEqual(a, b) == Len(a) = 0 \/ a[1] = b[1]

\* timingSafeEqual(a, b), for buffers of one length
timingSafeEqual(a, b) == a = b

\* The bytes of each buffer that timingSafeEqual(a, b) reads: node:crypto
\* compares the whole buffers, whatever their contents.
timingSafeReads(a, b) == Len(a)

\* The bytes a comparison reads that returns at the first mismatch.
readsToFirstMismatch(a, b) ==
  IF a = b THEN Len(a)
  ELSE CHOOSE i \in 1..Len(a) : a[i] # b[i] /\ \A j \in 1..(i - 1) : a[j] = b[j]

\* The signature check with a comparison that returns at the first mismatch.
SignatureCheckEarlyExit(signature, expected) ==
  IF Len(signature) # Len(expected) THEN [rejected |-> TRUE, compared |-> 0]
  ELSE [rejected |-> ~timingSafeEqual(signature, expected),
        compared |-> readsToFirstMismatch(signature, expected)]

\* signature.length != expected.length || !timingSafeEqual(signature, expected):
\* whether the check rejects, and how many bytes the comparison read.  The
\* lengths are tested first, and || calls timingSafeEqual only when they agree.
SignatureCheck(signature, expected) ==
  IF Len(signature) # Len(expected) THEN [rejected |-> TRUE, compared |-> 0]
  ELSE [rejected |-> ~timingSafeEqual(signature, expected),
        compared |-> timingSafeReads(signature, expected)]

\* x.k for a parsed JSON value that is not null: only an object has members.
Member(x, k) == IF x.t = "object" THEN Prop(x.m, k) ELSE JUndef

\* x * 1000, when the product is a number: [nan, n]
Times1000(x) ==
  CASE x.t = "number"  -> [nan |-> FALSE, n |-> x.n * 1000]
    [] x.t = "boolean" -> [nan |-> FALSE, n |-> x.n * 1000]
    [] x.t = "string" /\ Len(x.s) > 0 /\ (\A i \in 1..Len(x.s) : x.s[i] \in DigitChars) ->
         [nan |-> FALSE, n |-> ScanDigits(x.s, 1, 0).n * 1000]
    [] OTHER -> [nan |-> TRUE, n |-> 0]

\* payload.exp && Date.now() >= payload.exp * 1000
Expired(payload, ms) ==
  LET exp == Member(payload, Exp)
  IN  Truthy(exp) /\ ~Times1000(exp).nan /\ ms >= Times1000(exp).n

\* The comparison made only when the payload has the claim.
DiffersWhenPresent(payload, k, field) ==
  LET x == Member(payload, k)
  IN  x.t # "undefined" /\ ~(x.t = "string" /\ x.s = field[1])

\* payload.k !== field
Differs(payload, k, field) ==
  LET x == Member(payload, k)
  IN  ~(x.t = "string" /\ x.s = field[1])

\* How a run of the try block ends; compared is the number of signature bytes
\* the run compared.
Returned(v) == [kind |-> "return", value |-> v, error |-> "", compared |-> 0]
Thrown(e)   == [kind |-> "throw", value |-> JNull, error |-> e, compared |-> 0]

\* The try block without the signature check.
VerifyTryNoSignature(this, token, ms) ==
  LET parts == Split(token, ".")
  IN  IF Len(parts) # 3 THEN Returned(JNull)
      ELSE
        LET parsed  == JsonParse(Utf8String(DecodeBytes(parts[2])))
            payload == parsed.v
        IN  IF ~parsed.ok THEN Thrown("SyntaxError")
            ELSE IF payload.t = "null" THEN Thrown("TypeError")
            ELSE IF Expired(payload, ms) THEN Thrown("Token expirado")
            ELSE IF TruthyString(this.issuer) /\ Differs(payload, Iss, this.issuer)
              THEN Thrown("Issuer JWT invalido")
            ELSE IF TruthyString(this.audience) /\ Differs(payload, Aud, this.audience)
              THEN Thrown("Audience JWT invalido")
            ELSE Returned(payload)

\* The body of verify's try block (lines 57-84).
VerifyTry(this, token, ms) ==
  LET parts == Split(token, ".")
  IN  IF Len(parts) # 3 THEN Returned(JNull)
      ELSE
        LET headerEncoded    == parts[1]
            payloadEncoded   == parts[2]
            signatureEncoded == parts[3]
            msg       == headerEncoded \o <<".">> \o payloadEncoded
            signature == DecodeBytes(signatureEncoded)
            expected  == DecodeBytes(getSignature(this, msg))
            check     == SignatureCheck(signature, expected)
            parsed    == JsonParse(Utf8String(DecodeBytes(payloadEncoded)))
            payload   == parsed.v
            end ==
              IF check.rejected THEN Thrown("Firma JWT invalida")
              ELSE IF ~parsed.ok THEN Thrown("SyntaxError")
              ELSE IF payload.t = "null" THEN Thrown("TypeError")
              ELSE IF Expired(payload, ms) THEN Thrown("Token expirado")
              ELSE IF TruthyString(this.issuer) /\ Differs(payload, Iss, this.issuer)
                THEN Thrown("Issuer JWT invalido")
              ELSE IF TruthyString(this.audience) /\ Differs(payload, Aud, this.audience)
                THEN Thrown("Audience JWT invalido")
              ELSE Returned(payload)
        IN  [end EXCEPT !.compared = check.compared]

\* verify without the catch: an error of the try block reaches the caller.
verifyUncaught(this, token, ms) ==
  LET r == VerifyTry(this, token, ms)
  IN  [kind |-> r.kind, value |-> r.value, logged |-> "", compared |-> r.compared]

\* verify(token) at clock time ms: what it returns or throws, what the catch
\* block wrote to the console, and how many signature bytes it compared.
verify(this, token, ms) ==
  LET r == VerifyTry(this, token, ms)
  IN  IF r.kind = "throw"
      THEN [kind |-> "return", value |-> JNull, logged |-> r.error, compared |-> r.compared]
      ELSE [kind |-> "return", value |-> r.value, logged |-> "", compared |-> r.compared]

(***************************************************************************)
(* The inputs                                                              *)
(***************************************************************************)
\* The last whole second of the clock.
MaxSecond == 3

KeyOf(n) == [ i \in 1..n |-> IF i % 2 = 0 THEN "k" ELSE "0" ]

Options(key, header, expiresIn, issuer, audience) ==
  Some([key |-> key, header |-> header, expiresIn |-> expiresIn,
        issuer |-> issuer, audience |-> audience])

Me == <<"m", "e">>
Us == <<"u", "s">>
Yo == <<"y", "o">>
Tu == <<"t", "u">>

ExpiresInOptions == { Undefined, Some(0), Some(0 - 1), Some(2) }
IssuerOptions    == { Undefined, Some(<<>>), Some(Me) }
AudienceOptions  == { Undefined, Some(<<>>), Some(Us) }

\* The options new JWT(opt) is called with: every expiry / issuer / audience
\* under a 32-character key, a header override, a longer key, and the keys
\* that are too short (31 characters, empty, none given, no options at all).
CtorOptions ==
  { Options(Some(KeyOf(MinKeyLength)), Undefined, e, i, a) :
      e \in ExpiresInOptions, i \in IssuerOptions, a \in AudienceOptions }
  \cup { Options(Some(KeyOf(MinKeyLength)), Some(<<[k |-> Typ, v |-> JStr(<<"a", "t">>)]>>),
                 Undefined, Undefined, Undefined),
         Options(Some(KeyOf(MinKeyLength + 8)), Undefined, Undefined, Undefined, Undefined),
         Options(Some(KeyOf(MinKeyLength - 1)), Undefined, Some(2), Some(Me), Undefined),
         Options(Some(<<>>), Undefined, Undefined, Undefined, Undefined),
         Options(Undefined, Undefined, Some(2), Undefined, Undefined),
         Undefined }

U == <<"u">>

\* { u: 1, n: "a\"b" }
PlainPayload ==
  JObj(<< [k |-> U, v |-> JNum(1)], [k |-> <<"n">>, v |-> JStr(<<"a", "\"", "b">>)] >>)
\* { iat: 9, exp: 2, iss: "yo", aud: "tu", u: 1 }: the caller sets the reserved claims
ClaimsPayload ==
  JObj(<< [k |-> Iat, v |-> JNum(9)], [k |-> Exp, v |-> JNum(2)],
          [k |-> Iss, v |-> JStr(Yo)], [k |-> Aud, v |-> JStr(Tu)],
          [k |-> U, v |-> JNum(1)] >>)
\* { exp: 0 }
ZeroExpPayload == JObj(<< [k |-> Exp, v |-> JNum(0)] >>)
\* const circular = {}; circular.self = circular
CircularPayload == JObj(<< [k |-> <<"s", "e", "l", "f">>, v |-> JCycle] >>)

Payloads == { PlainPayload, ClaimsPayload, ZeroExpPayload, CircularPayload, JNull }

(***************************************************************************)
(* One codec and its caller                                                *)
(***************************************************************************)
VARIABLES
  clock,    \* Date.now(), in milliseconds
  made,     \* the last new JWT(opt): [opt, ok, error]
  jwt,      \* the instance the caller holds
  issued,   \* the generate call the token comes from: [by, payload, at, out]
  token,    \* the token the caller holds
  edit,     \* the character replaced in the token: [segment, index, old, new]
  checked   \* verify(token) of the instance at the present clock time

\* The session manager's side of the program (Manager.ts, Memory.ts).
VARIABLES
  machines,  \* Manager.ts's registry: the own members [k, v], name -> class
  managers,  \* the Manager instances: [cookieName, machineType, cookieOptions, machine]
  heap,      \* the Session objects ever created: [id, data]
  call,      \* the start call that is in its loop: [m, header, response, id]
  answer,    \* the last call and how it ended
  given      \* per manager, the sessions that start gave to requests without
             \* a session cookie: [id, ref, cookie, live]

jwtVars == <<clock, made, jwt, issued, token, edit, checked>>
sessionVars == <<machines, managers, heap, call, answer, given>>
vars == <<clock, made, jwt, issued, token, edit, checked,
          machines, managers, heap, call, answer, given>>

\* Manager.ts is loaded: nothing is registered, no manager is constructed.
NoManager ==
  /\ machines = <<>>
  /\ managers = <<>>
  /\ heap = <<>>
  /\ call = Undefined
  /\ answer = Undefined
  /\ given = <<>>

Init ==
  /\ clock = 1000
  /\ made = Undefined
  /\ jwt = Undefined
  /\ issued = Undefined
  /\ token = Undefined
  /\ edit = Undefined
  /\ checked = Undefined
  /\ NoManager

\* const jwt = new JWT(opt)
Construct(opt) ==
  LET r == Constructor(opt)
  IN  /\ made' = Some([opt |-> opt, ok |-> r.ok, error |-> r.error])
      /\ jwt' = r.this
      /\ issued' = Undefined
      /\ token' = Undefined
      /\ edit' = Undefined
      /\ checked' = Undefined
      /\ UNCHANGED <<clock, sessionVars>>

\* Half a second passes.
Tick ==
  /\ clock + 500 < (MaxSecond + 1) * 1000
  /\ clock' = clock + 500
  /\ checked' = Undefined
  /\ UNCHANGED <<made, jwt, issued, token, edit, sessionVars>>

\* token = jwt.generate(payload)
Generate(payload) ==
  /\ IsDefined(jwt)
  /\ LET r == generate(jwt[1], payload, clock)
     IN  /\ issued' = Some([by |-> jwt[1], payload |-> payload, at |-> clock, out |-> r])
         /\ token' = IF r.kind = "return" THEN Some(r.token) ELSE Undefined
  /\ edit' = Undefined
  /\ checked' = Undefined
  /\ UNCHANGED <<clock, made, jwt, sessionVars>>

\* jwt.verify(token)
Verify ==
  /\ IsDefined(jwt)
  /\ IsDefined(token)
  /\ checked = Undefined
  /\ checked' = Some(verify(jwt[1], token[1], clock))
  /\ UNCHANGED <<clock, made, jwt, issued, token, edit, sessionVars>>

Next ==
  \/ \E opt \in CtorOptions : Construct(opt)
  \/ Tick
  \/ \E payload \in Payloads : Generate(payload)
  \/ Verify

Spec == Init /\ [][Next]_vars

(***************************************************************************)
(* A codec that verifies tokens it did not issue                           *)
(***************************************************************************)
\* The verifying instances: every issuer / audience under the 32-character key.
Verifiers ==
  { Constructor(Options(Some(KeyOf(MinKeyLength)), Undefined, Undefined, i, a)).this :
      i \in IssuerOptions, a \in AudienceOptions }

\* The issuing instances: other instances that hold the same key.
Issuers ==
  { Constructor(Options(Some(KeyOf(MinKeyLength)), Undefined, e, i, a)).this[1] :
      e \in { Undefined, Some(0 - 1), Some(1) },
      i \in { Undefined, Some(Me), Some(Yo) },
      a \in { Undefined, Some(Us), Some(Tu) } }

\* Payload texts that generate never writes: null, 5, "s", {"u":1 and {}.
ForgedTexts ==
  { <<"n", "u", "l", "l">>, <<"5">>, <<"\"", "s", "\"">>,
    <<"{", "\"", "u", "\"", ":", "1">>, <<"{", "}">> }

\* A token with the given payload text, signed with the instance's key.
Signed(this, text) ==
  LET header  == base64Encode(Stringify(JObj(this.header)).text)
      encoded == base64Encode(text)
  IN  header \o <<".">> \o encoded \o <<".">> \o getSignature(this, header \o <<".">> \o encoded)

\* Tokens of the wrong shape: "invalid", "part1.part2", "a.b.c.d", "", and a
\* token whose signature segment is "invalidSignature".
Malformed ==
  { <<"i", "n", "v", "a", "l", "i", "d">>,
    <<"p", "1", ".", "p", "2">>,
    <<"a", ".", "b", ".", "c", ".", "d">>,
    <<>>,
    LET parts == Split(Signed([header |-> DefaultHeader, key |-> KeyOf(MinKeyLength)],
                              <<"{", "}">>), ".")
    IN  parts[1] \o <<".">> \o parts[2] \o <<".">>
          \o <<"i", "n", "v", "a", "l", "i", "d", "S", "i", "g", "n", "a", "t", "u", "r", "e">> }

InitForeign ==
  /\ clock = 1000
  /\ made = Undefined
  /\ jwt \in Verifiers
  /\ issued = Undefined
  /\ token = Undefined
  /\ edit = Undefined
  /\ checked = Undefined
  /\ NoManager

\* token = other.generate(payload), by another holder of the key
Issue(other, payload) ==
  /\ token = Undefined
  /\ LET r == generate(other, payload, clock)
     IN  /\ r.kind = "return"
         /\ issued' = Some([by |-> other, payload |-> payload, at |-> clock, out |-> r])
         /\ token' = Some(r.token)
  /\ UNCHANGED <<clock, made, jwt, edit, checked, sessionVars>>

\* A holder of the key signs a payload text of its own.
Forge(text) ==
  /\ token = Undefined
  /\ token' = Some(Signed(jwt[1], text))
  /\ UNCHANGED <<clock, made, jwt, issued, edit, checked, sessionVars>>

\* The caller presents a token of the wrong shape.
Present(text) ==
  /\ token = Undefined
  /\ token' = Some(text)
  /\ UNCHANGED <<clock, made, jwt, issued, edit, checked, sessionVars>>

\* The encoded segments a holder of the key signs as they are: the header and
\* payload that generate writes for {}, and the empty segment.
SignedSegments ==
  { <<>>, base64Encode(Stringify(JObj(DefaultHeader)).text), base64Encode(<<"{", "}">>) }

\* A holder of the key signs header.payload for two segments of its choice:
\* the signature segment is the HMAC of the two segments the verifier receives.
Sign(header, encoded) ==
  /\ token = Undefined
  /\ token' = Some(header \o <<".">> \o encoded \o <<".">>
                     \o getSignature(jwt[1], header \o <<".">> \o encoded))
  /\ UNCHANGED <<clock, made, jwt, issued, edit, checked, sessionVars>>

\* Tokens of three segments with an empty signature: "..", and header.payload.
\* for the segments generate writes for {}.
Unsigned ==
  { <<".", ".">>,
    base64Encode(Stringify(JObj(DefaultHeader)).text) \o <<".">>
      \o base64Encode(<<"{", "}">>) \o <<".">> }

NextForeign ==
  \/ \E other \in Issuers, payload \in { PlainPayload, ZeroExpPayload } : Issue(other, payload)
  \/ \E text \in ForgedTexts : Forge(text)
  \/ \E header \in SignedSegments, encoded \in SignedSegments : Sign(header, encoded)
  \/ \E text \in Malformed \cup Unsigned : Present(text)
  \/ Tick
  \/ Verify

SpecForeign == InitForeign /\ [][NextForeign]_vars

(***************************************************************************)
(* A token changed in one character on its way back                        *)
(***************************************************************************)
\* The instances whose tokens are changed: one with no options but the key,
\* one with expiry, issuer and audience.
TamperedCodecs ==
  { Constructor(Options(Some(KeyOf(MinKeyLength)), Undefined, Undefined, Undefined, Undefined)).this,
    Constructor(Options(Some(KeyOf(MinKeyLength)), Undefined, Some(2), Some(Me), Some(Us))).this }

\* The characters put in place of a token's character: the base64url
\* alphabet, '+' and '/' of the base64 alphabet, and '=', '.', '!' and ' '.
ReplacementChars == B64Chars \cup { "+", "/", "=", ".", "!", " " }

\* Where segment n of a token starts: the position before its first character.
SegmentStart(text, n) ==
  IF n = 1 THEN 0
  ELSE IF n = 2 THEN Len(Split(text, ".")[1]) + 1
  ELSE Len(Split(text, ".")[1]) + Len(Split(text, ".")[2]) + 2

InitTamper ==
  /\ clock = 1000
  /\ made = Undefined
  /\ jwt \in TamperedCodecs
  /\ issued = Undefined
  /\ token = Undefined
  /\ edit = Undefined
  /\ checked = Undefined
  /\ NoManager

\* Character i of segment n of the issued token is replaced by c.
Replace(n, i, c) ==
  /\ edit = Undefined
  /\ IsDefined(issued)
  /\ token = Some(issued[1].out.token)
  /\ i <= Len(Split(token[1], ".")[n])
  /\ LET pos == SegmentStart(token[1], n) + i
     IN  /\ token[1][pos] # c
         /\ token' = Some([token[1] EXCEPT ![pos] = c])
         /\ edit' = Some([segment |-> n, index |-> i, old |-> token[1][pos], new |-> c])
  /\ checked' = Undefined
  /\ UNCHANGED <<clock, made, jwt, issued, sessionVars>>

NextTamper ==
  \/ issued = Undefined /\ \E payload \in { PlainPayload, ClaimsPayload } : Generate(payload)
  \/ \E n \in { 2, 3 }, i \in 1..80, c \in ReplacementChars : Replace(n, i, c)
  \/ Verify

SpecTamper == InitTamper /\ [][NextTamper]_vars

(***************************************************************************)
(* Properties of one codec                                                 *)
(***************************************************************************)
Keys(m) == { m[i].k : i \in 1..Len(m) }
Members(m) == { m[i] : i \in 1..Len(m) }

NotUndefined(o) == o # Undefined
NonZero(o) == o # Undefined /\ o[1] # 0
NonEmpty(o) == o # Undefined /\ o[1] # <<>>

\* The payload a token carries.
TokenPayload(text) == JsonParse(Utf8String(DecodeBytes(Split(text, ".")[2]))).v

\* The claims the codec manages, where HasNumber and HasString say when an
\* option counts as configured.
Managed(this, now, HasNumber(_), HasString(_)) ==
  {[k |-> Iat, v |-> JNum(now)]}
  \cup (IF HasNumber(this.expiresIn)
        THEN {[k |-> Exp, v |-> JNum(now + this.expiresIn[1])]} ELSE {})
  \cup (IF HasString(this.issuer) THEN {[k |-> Iss, v |-> JStr(this.issuer[1])]} ELSE {})
  \cup (IF HasString(this.audience) THEN {[k |-> Aud, v |-> JStr(this.audience[1])]} ELSE {})

\* The caller's payload plus the managed claims.
PayloadPlus(payload, managed) ==
  managed \cup { x \in Members(Spread(payload)) : x.k \notin { y.k : y \in managed } }

\* verify has just run on the token generate returned within the same second.
RoundTrip ==
  /\ IsDefined(checked)
  /\ IsDefined(issued)
  /\ issued[1].by = jwt[1]
  /\ issued[1].out.kind = "return"
  /\ token = Some(issued[1].out.token)
  /\ clock \div 1000 = issued[1].at \div 1000

\* C1 as stated: verify(generate(P)) within the same second returns exactly P
\* plus iat = now, plus exp = now + expiresIn, iss = issuer and aud = audience
\* for every option that was given.
C1_RoundTripWheneverConfigured ==
  RoundTrip =>
    /\ checked[1].value.t = "object"
    /\ Members(checked[1].value.m) =
         PayloadPlus(issued[1].payload,
                     Managed(jwt[1], clock \div 1000, NotUndefined, NotUndefined))

\* C1, amended: verify(generate(P)) within the same second returns exactly P
\* plus iat = now, plus exp = now + expiresIn when expiresIn is not 0, plus iss
\* and aud when issuer and audience are not empty, provided the exp of the
\* issued payload (the codec's, else the caller's) is absent or later than now;
\* when that exp is not 0 and at or before now, verify returns null.
C1_RoundTrip ==
  RoundTrip =>
    LET now      == clock \div 1000
        expected == PayloadPlus(issued[1].payload, Managed(jwt[1], now, NonZero, NonEmpty))
        exps     == { x.v.n : x \in { y \in expected : y.k = Exp } }
    IN  /\ (\A e \in exps : e > now) =>
             /\ checked[1].value.t = "object"
             /\ Members(checked[1].value.m) = expected
             /\ Len(checked[1].value.m) = Cardinality(expected)
        /\ (\E e \in exps : e # 0 /\ e <= now) => checked[1].value = JNull

C1_Witness ==
  /\ RoundTrip
  /\ jwt[1].expiresIn = Some(2)
  /\ jwt[1].issuer = Some(Me)
  /\ issued[1].payload = ClaimsPayload
  /\ clock > issued[1].at
  /\ checked[1].value.t = "object"

\* The key a constructor call ends up with.
EffectiveKey(opt) ==
  IF opt # Undefined /\ opt[1].key # Undefined THEN opt[1].key[1] ELSE DefaultKey

\* C6: new JWT(opt) throws exactly when the effective key (the key option, or
\* the default key when none is given) is shorter than 32 characters, and no
\* instance holds a key shorter than 32 characters.
C6_KeyLength ==
  /\ IsDefined(made) =>
       /\ made[1].ok <=> Len(EffectiveKey(made[1].opt)) >= 32
       /\ made[1].ok <=> IsDefined(jwt)
       /\ ~made[1].ok => made[1].error = KeyError
  /\ IsDefined(jwt) => Len(jwt[1].key) >= 32

C6_Witness ==
  /\ IsDefined(made)
  /\ made[1].ok
  /\ Len(jwt[1].key) = 32
  /\ jwt[1].key = made[1].opt[1].key[1]

Circular(payload) == \E i \in 1..Len(payload.m) : payload.m[i].v = JCycle

\* C8: generate throws 'Error generando JWT' and returns no token, not even a
\* part of one, when the payload contains a reference cycle.
C8_CircularPayloadThrows ==
  (IsDefined(issued) /\ Circular(issued[1].payload)) =>
    /\ issued[1].out.kind = "throw"
    /\ issued[1].out.error = GenerateError
    /\ issued[1].out.token = <<>>
    /\ token = Undefined

C8_Witness ==
  /\ IsDefined(issued)
  /\ issued[1].payload = CircularPayload
  /\ issued[1].out.kind = "throw"

\* C9: generate throws 'Error generando JWT' for the payload null and never
\* returns a token for it.
C9_NullPayloadThrows ==
  (IsDefined(issued) /\ issued[1].payload = JNull) =>
    /\ issued[1].out.kind = "throw"
    /\ issued[1].out.error = GenerateError
    /\ token = Undefined

\* generate has just returned a token.
Issued == IsDefined(issued) /\ issued[1].out.kind = "return"

\* C10 as stated: the payload of an issued token has iat, and has exp, iss, aud
\* exactly when expiresIn, issuer, audience was given, whatever its value and
\* whatever the caller's payload.
C10_ClaimIffConfigured ==
  Issued =>
    LET m == TokenPayload(issued[1].out.token).m
    IN  /\ HasKey(m, Iat)
        /\ HasKey(m, Exp) <=> jwt[1].expiresIn # Undefined
        /\ HasKey(m, Iss) <=> jwt[1].issuer # Undefined
        /\ HasKey(m, Aud) <=> jwt[1].audience # Undefined

\* C10, amended: the payload of an issued token has iat, and has exp (iss, aud)
\* exactly when expiresIn is given and not 0 (issuer, audience is given and not
\* empty) or the caller's payload itself carries that claim.
C10_ClaimIffSet ==
  Issued =>
    LET m == TokenPayload(issued[1].out.token).m
        p == Spread(issued[1].payload)
    IN  /\ HasKey(m, Iat)
        /\ HasKey(m, Exp) <=> (NonZero(jwt[1].expiresIn) \/ HasKey(p, Exp))
        /\ HasKey(m, Iss) <=> (NonEmpty(jwt[1].issuer) \/ HasKey(p, Iss))
        /\ HasKey(m, Aud) <=> (NonEmpty(jwt[1].audience) \/ HasKey(p, Aud))

C10_Witness ==
  /\ Issued
  /\ jwt[1].expiresIn = Some(0)
  /\ jwt[1].issuer = Some(<<>>)
  /\ jwt[1].audience = Some(Us)
  /\ issued[1].payload = PlainPayload
  /\ Keys(TokenPayload(issued[1].out.token).m) = { U, <<"n">>, Iat, Aud }

(***************************************************************************)
(* Properties of verification                                              *)
(***************************************************************************)
\* verify has just run on a token that a holder of the instance's key issued.
CheckedIssued ==
  /\ IsDefined(checked)
  /\ IsDefined(issued)
  /\ issued[1].by.key = jwt[1].key
  /\ token = Some(issued[1].out.token)

\* The instance checks claim k against field and the payload's claim is not it.
Mismatch(m, k, field, Has(_)) == Has(field) /\ Prop(m, k) # JStr(field[1])

\* C4: a correctly signed token whose payload carries exp = t is accepted at
\* every clock time before second t and rejected (null) at second t and at
\* every later time, for every integer t.
C4_ExpiryBoundary ==
  CheckedIssued =>
    LET p == TokenPayload(token[1])
    IN  HasKey(p.m, Exp) =>
          LET t == Prop(p.m, Exp).n
          IN  /\ clock >= t * 1000 => checked[1].value = JNull
              /\ ( /\ clock < t * 1000
                   /\ ~Mismatch(p.m, Iss, jwt[1].issuer, NonEmpty)
                   /\ ~Mismatch(p.m, Aud, jwt[1].audience, NonEmpty) )
                   => checked[1].value = p

C7_VerifyNeverRaises ==
  IsDefined(checked) =>
    /\ checked[1].kind = "return"
    /\ checked[1].logged # "" => checked[1].value = JNull
    /\ Len(Split(token[1], ".")) # 3 => checked[1].value = JNull
    /\ checked[1].value # JNull => checked[1].value = TokenPayload(token[1])

C7_Witness ==
  /\ IsDefined(checked)
  /\ token[1] = Signed(jwt[1], <<"n", "u", "l", "l">>)
  /\ checked[1].kind = "return"
  /\ checked[1].value = JNull
  /\ checked[1].logged = "TypeError"

(***************************************************************************)
(* Properties of a changed token                                           *)
(***************************************************************************)
\* verify has just run on an issued token with one character of segment n
\* replaced.
CheckedEdited(n) ==
  /\ IsDefined(checked)
  /\ IsDefined(edit)
  /\ edit[1].segment = n

\* C2 as stated: replacing any single character of the signature segment of an
\* issued token by a different character makes verify return null.
C2_AnySignatureChangeRejected ==
  CheckedEdited(3) => checked[1].value = JNull

\* The replacement leaves the bytes of a signature of sigLength characters
\* unchanged: the new character has the old one's value ('+' for '-', '/' for
\* '_'), or it is the last of 4n+3 characters and has the same leading four
\* bits.
SameSignatureBytes(e, sigLength) ==
  /\ Unbase64[e.new] < 64
  /\ \/ Unbase64[e.new] = Unbase64[e.old]
     \/ /\ e.index = sigLength
        /\ sigLength % 4 = 3
        /\ Unbase64[e.new] \div 4 = Unbase64[e.old] \div 4

\* C2, amended: replacing any single character of the signature segment of an
\* issued token by a different character makes verify return null, unless the
\* new character decodes to the same signature bytes (the same base64 value,
\* or in the last position the same leading four bits): then verify returns
\* what it returns for the issued token.
C2_SignatureChange ==
  CheckedEdited(3) =>
    LET sigLength == Len(Split(issued[1].out.token, ".")[3])
    IN  IF SameSignatureBytes(edit[1], sigLength)
        THEN /\ checked[1].value = TokenPayload(issued[1].out.token)
             /\ checked[1].value # JNull
        ELSE /\ checked[1].value = JNull
             /\ edit[1].new # "." => checked[1].logged = "Firma JWT invalida"

C2_Witness ==
  /\ CheckedEdited(3)
  /\ edit[1].index = 1
  /\ edit[1].new \in B64Chars
  /\ checked[1].value = JNull
  /\ checked[1].logged = "Firma JWT invalida"

\* C3: replacing any single character of the payload segment of an issued
\* token by a different character makes verify return null, because the
\* signature recomputed over header.payload no longer matches.
C3_PayloadChangeRejected ==
  CheckedEdited(2) =>
    /\ checked[1].value = JNull
    /\ edit[1].new # "." => checked[1].logged = "Firma JWT invalida"

\* The changed payload still reads as a JSON object, with another iat.
C3_Witness ==
  /\ CheckedEdited(2)
  /\ JsonParse(Utf8String(DecodeBytes(Split(token[1], ".")[2]))).ok
  /\ Prop(TokenPayload(token[1]).m, Iat) # Prop(TokenPayload(issued[1].out.token).m, Iat)
  /\ checked[1].value = JNull
  /\ checked[1].logged = "Firma JWT invalida"

(***************************************************************************)
(* Properties of the reserved claims                                       *)
(***************************************************************************)
ReservedClaims == { Iat, Exp, Iss, Aud }

\* C11 as stated: a reserved claim (iat, exp, iss, aud) the caller puts in the
\* payload never reaches the issued token: the token carries the value the
\* codec manages for that claim instead.
C11_CallerClaimNeverIssued ==
  Issued =>
    LET m   == TokenPayload(issued[1].out.token).m
        p   == Spread(issued[1].payload)
        own == Managed(issued[1].by, issued[1].at \div 1000, NonZero, NonEmpty)
    IN  \A k \in ReservedClaims :
          HasKey(p, k) => \E x \in own : x.k = k /\ Prop(m, k) = x.v

\* C11, amended: in the issued token iat is always the codec's (now), and exp
\* (iss, aud) is the codec's whenever expiresIn is given and not 0 (issuer,
\* audience is given and not empty), whatever the caller's payload says; a
\* caller's exp, iss or aud that the codec does not manage is issued as the
\* caller wrote it.  No claim is issued twice.
C11_ManagedClaimWins ==
  Issued =>
    LET m   == TokenPayload(issued[1].out.token).m
        p   == Spread(issued[1].payload)
        own == Managed(issued[1].by, issued[1].at \div 1000, NonZero, NonEmpty)
    IN  /\ \A x \in own : Prop(m, x.k) = x.v
        /\ \A k \in ReservedClaims \ { x.k : x \in own } : Prop(m, k) = Prop(p, k)
        /\ Len(m) = Cardinality(Keys(m))

C11_Witness ==
  /\ Issued
  /\ issued[1].payload = ClaimsPayload
  /\ jwt[1].expiresIn = Some(2)
  /\ jwt[1].issuer = Some(Me)
  /\ jwt[1].audience = Undefined
  /\ issued[1].at = 1500
  /\ Members(TokenPayload(issued[1].out.token).m) =
       { [k |-> Iat, v |-> JNum(1)], [k |-> Exp, v |-> JNum(3)],
         [k |-> Iss, v |-> JStr(Me)], [k |-> Aud, v |-> JStr(Tu)],
         [k |-> U, v |-> JNum(1)] }

(***************************************************************************)
(* Properties of the token's shape                                         *)
(***************************************************************************)
\* The text splits on '.' into exactly 3 segments, none of them empty.
ThreeNonEmptySegments(text) ==
  LET parts == Split(text, ".")
  IN  Len(parts) = 3 /\ \A i \in 1..3 : Len(parts[i]) > 0

\* C12: verify returns null for every token that does not split on '.' into
\* exactly 3 non-empty segments, also when the header or the payload segment is
\* empty and the signature segment is the HMAC of the two received segments.
C12_MalformedRejected ==
  (IsDefined(checked) /\ ~ThreeNonEmptySegments(token[1])) => checked[1].value = JNull

(***************************************************************************)
(* Properties of the signature comparison                                  *)
(***************************************************************************)
\* The decoded signature segment of the token verify was given.
ReceivedSignature == DecodeBytes(Split(token[1], ".")[3])

\* The decoded signature the instance computes for the token's first two
\* segments.
ExpectedSignature ==
  LET parts == Split(token[1], ".")
  IN  DecodeBytes(getSignature(jwt[1], parts[1] \o <<".">> \o parts[2]))

\* C13: for a token of three segments, verify rejects without comparing any
\* byte when the decoded received and expected signatures differ in length;
\* otherwise the comparison reads every byte of the signatures, wherever the
\* first mismatching byte is (its cost depends on the length only), and
\* signatures that differ are rejected.
C13_LengthFirstThenConstantTime ==
  (IsDefined(checked) /\ Len(Split(token[1], ".")) = 3) =>
    /\ Len(ReceivedSignature) # Len(ExpectedSignature) =>
         /\ checked[1].compared = 0
         /\ checked[1].value = JNull
         /\ checked[1].logged = "Firma JWT invalida"
    /\ Len(ReceivedSignature) = Len(ExpectedSignature) =>
         checked[1].compared = Len(ExpectedSignature)
    /\ ReceivedSignature # ExpectedSignature => checked[1].value = JNull

\* The first byte of the received signature is already wrong, and the
\* comparison still read both bytes.
C13_Witness ==
  /\ CheckedEdited(3)
  /\ Len(ReceivedSignature) = Len(ExpectedSignature)
  /\ ReceivedSignature[1] # ExpectedSignature[1]
  /\ checked[1].compared = 2
  /\ checked[1].value = JNull

(***************************************************************************)
(* Cookies (src/backend/Memory.ts, from line 67 on)                        *)
(*                                                                         *)
(* A JavaScript object used as a dictionary ({}) is a sequence of own      *)
(* members [k, v]; a lookup obj[k] that finds no own member finds the      *)
(* members of Object.prototype.                                            *)
(***************************************************************************)
Min(S) == CHOOSE x \in S : \A y \in S : x <= y
Max(S) == CHOOSE x \in S : \A y \in S : x >= y

RECURSIVE Join(_, _)
\* parts.join(sep)
Join(parts, sep) ==
  IF Len(parts) = 0 THEN <<>>
  ELSE IF Len(parts) = 1 THEN parts[1]
  ELSE parts[1] \o sep \o Join(Tail(parts), sep)

\* text.trim(): the white space at both ends goes (of the characters of this
\* model the space is the only white space).
Trim(text) ==
  LET kept == { i \in 1..Len(text) : text[i] # " " }
  IN  IF kept = {} THEN <<>> ELSE SubSeq(text, Min(kept), Max(kept))

Hex == << "0", "1", "2", "3", "4", "5", "6", "7", "8", "9", "A", "B", "C", "D", "E", "F" >>
LowerHex == << "0", "1", "2", "3", "4", "5", "6", "7", "8", "9", "a", "b", "c", "d", "e", "f" >>

IsHex(c) == \E i \in 1..16 : Hex[i] = c \/ LowerHex[i] = c
HexValue(c) == (CHOOSE i \in 1..16 : Hex[i] = c \/ LowerHex[i] = c) - 1

\* The characters encodeURIComponent leaves as they are.
Unreserved ==
  { Ascii[i] : i \in 34..59 } \cup { Ascii[i] : i \in 66..91 } \cup DigitChars
    \cup { "-", "_", ".", "!", "~", "*", "'", "(", ")" }

RECURSIVE encodeURIComponent(_)
\* encodeURIComponent(text): every other character becomes %XX for each byte
\* of its UTF-8 form (a character that is not printable ASCII is written as
\* U+FFFD).
encodeURIComponent(text) ==
  IF Len(text) = 0 THEN <<>>
  ELSE LET c == text[1]
           code == IF c \in AsciiChars THEN CodeOf[c] ELSE 0
           head == IF c \in Unreserved THEN <<c>>
                   ELSE IF c \in AsciiChars
                     THEN << "%", Hex[(code \div 16) + 1], Hex[(code % 16) + 1] >>
                   ELSE << "%", "E", "F", "%", "B", "F", "%", "B", "D" >>
       IN  head \o encodeURIComponent(Tail(text))

\* The byte written %XX at position i of text, -1 when there is none.
EscapedByte(text, i) ==
  IF i + 2 <= Len(text) /\ text[i] = "%" /\ IsHex(text[i + 1]) /\ IsHex(text[i + 2])
  THEN (16 * HexValue(text[i + 1])) + HexValue(text[i + 2])
  ELSE 0 - 1

\* How many bytes the UTF-8 character with first byte b has, 0 when b starts none.
Utf8Length(b) ==
  IF b < 128 THEN 1
  ELSE IF b >= 194 /\ b <= 223 THEN 2
  ELSE IF b >= 224 /\ b <= 239 THEN 3
  ELSE IF b >= 240 /\ b <= 244 THEN 4
  ELSE 0

\* The second byte a UTF-8 character with first byte b may have.
SecondByteOk(b, c) ==
  CASE b = 224 -> c >= 160 /\ c <= 191
    [] b = 237 -> c >= 128 /\ c <= 159
    [] b = 240 -> c >= 144 /\ c <= 191
    [] b = 244 -> c >= 128 /\ c <= 143
    [] OTHER   -> c >= 128 /\ c <= 191

RECURSIVE decodeURIComponent(_)
\* decodeURIComponent(text): [ok, text]; a '%' that does not start the escaped
\* bytes of one UTF-8 character raises URIError (ok is FALSE).
decodeURIComponent(text) ==
  IF Len(text) = 0 THEN [ok |-> TRUE, text |-> <<>>]
  ELSE IF text[1] # "%"
    THEN LET rest == decodeURIComponent(Tail(text))
         IN  [ok |-> rest.ok, text |-> <<text[1]>> \o rest.text]
  ELSE
    LET b == EscapedByte(text, 1)
        n == IF b < 0 THEN 0 ELSE Utf8Length(b)
        follow == [ j \in 1..(n - 1) |-> EscapedByte(text, (3 * j) + 1) ]
        valid == /\ n > 0
                 /\ \A j \in 1..(n - 1) : follow[j] >= 128 /\ follow[j] <= 191
                 /\ n > 1 => SecondByteOk(b, follow[1])
        rest == decodeURIComponent(SubSeq(text, (3 * n) + 1, Len(text)))
    IN  IF ~valid THEN [ok |-> FALSE, text |-> <<>>]
        ELSE [ok |-> rest.ok,
              text |-> <<(IF n = 1 /\ b >= 32 /\ b <= 126 THEN Ascii[b - 31] ELSE BadChar)>>
                         \o rest.text]

\* The names every object inherits from Object.prototype.
ObjectPrototype ==
  { <<"c", "o", "n", "s", "t", "r", "u", "c", "t", "o", "r">>,
    <<"t", "o", "S", "t", "r", "i", "n", "g">>,
    <<"t", "o", "L", "o", "c", "a", "l", "e", "S", "t", "r", "i", "n", "g">>,
    <<"v", "a", "l", "u", "e", "O", "f">>,
    <<"h", "a", "s", "O", "w", "n", "P", "r", "o", "p", "e", "r", "t", "y">>,
    <<"i", "s", "P", "r", "o", "t", "o", "t", "y", "p", "e", "O", "f">>,
    <<"p", "r", "o", "p", "e", "r", "t", "y", "I", "s", "E", "n", "u", "m", "e", "r", "a", "b", "l", "e">>,
    <<"_", "_", "p", "r", "o", "t", "o", "_", "_">>,
    <<"_", "_", "d", "e", "f", "i", "n", "e", "G", "e", "t", "t", "e", "r", "_", "_">>,
    <<"_", "_", "d", "e", "f", "i", "n", "e", "S", "e", "t", "t", "e", "r", "_", "_">>,
    <<"_", "_", "l", "o", "o", "k", "u", "p", "G", "e", "t", "t", "e", "r", "_", "_">>,
    <<"_", "_", "l", "o", "o", "k", "u", "p", "S", "e", "t", "t", "e", "r", "_", "_">> }

Proto == <<"_", "_", "p", "r", "o", "t", "o", "_", "_">>

\* What a lookup gives: undefined, or what Object.prototype holds under an
\* inherited name (a value that is truthy and is none of the program's
\* objects), or a cookie's value, or a Session object (a place of the heap).
NoValue == [t |-> "undefined", ref |-> 0, text |-> <<>>]
Inherited(k) == [t |-> "inherited", ref |-> 0, text |-> k]
CookieValue(cookie) == [t |-> "cookie", ref |-> 0, text |-> cookie.value]
SessionValue(ref) == [t |-> "session", ref |-> ref, text |-> <<>>]

\* obj[k] for a dictionary with own members m whose values are wrapped by Own
Get(m, k, Own(_)) ==
  IF HasKey(m, k) THEN Own(m[CHOOSE i \in 1..Len(m) : m[i].k = k].v)
  ELSE IF k \in ObjectPrototype THEN Inherited(k)
  ELSE NoValue

\* obj[k] = v for a dictionary: assigning to __proto__ adds no member (an
\* object assigned becomes the prototype; lookups through a prototype so
\* replaced are not modelled).
Set(m, k, v) == IF k = Proto THEN m ELSE Put(m, k, v)

\* delete obj[k]
Delete(m, k) == SelectSeq(m, LAMBDA x : x.k # k)

\* interface CookieOptions: every option may be missing.
CookieOptions(domain, path, expires, maxAge, secure, httpOnly, sameSite, priority, signed, encode) ==
  [domain |-> domain, path |-> path, expires |-> expires, maxAge |-> maxAge,
   secure |-> secure, httpOnly |-> httpOnly, sameSite |-> sameSite,
   priority |-> priority, signed |-> signed, encode |-> encode]

\* {}
NoOptions ==
  CookieOptions(Undefined, Undefined, Undefined, Undefined, Undefined, Undefined,
                Undefined, Undefined, Undefined, Undefined)

\* a ?? b
Coalesce(a, b) == IF IsDefined(a) THEN a[1] ELSE b

\* { ...a, ...b } for two sets of options
Merge(a, b) == [ f \in DOMAIN a |-> IF IsDefined(b[f]) THEN b[f] ELSE a[f] ]

Slash == <<"/">>

CookieNameError == "Cookie name must be a non-empty string"

\* new CookieVar(name, value, options): [ok, cookie, error].  A Date is held
\* as its time in whole seconds; encode is the name of the encoder,
\* "encodeURIComponent" or the caller's "raw" (value => value).
CookieVar(name, value, options) ==
  IF Len(name) = 0 THEN [ok |-> FALSE, cookie |-> Undefined, error |-> CookieNameError]
  ELSE [ok |-> TRUE, error |-> "",
        cookie |-> Some([name     |-> name,
                         value    |-> value,
                         domain   |-> options.domain,
                         path     |-> Coalesce(options.path, Slash),
                         expires  |-> options.expires,
                         maxAge   |-> options.maxAge,
                         secure   |-> Coalesce(options.secure, FALSE),
                         httpOnly |-> Coalesce(options.httpOnly, FALSE),
                         sameSite |-> options.sameSite,
                         priority |-> options.priority,
                         signed   |-> Coalesce(options.signed, FALSE),
                         encode   |-> Coalesce(options.encode, "encodeURIComponent")])]

DayNames ==
  << <<"S", "u", "n">>, <<"M", "o", "n">>, <<"T", "u", "e">>, <<"W", "e", "d">>,
     <<"T", "h", "u">>, <<"F", "r", "i">>, <<"S", "a", "t">> >>
MonthNames ==
  << <<"J", "a", "n">>, <<"F", "e", "b">>, <<"M", "a", "r">>, <<"A", "p", "r">>,
     <<"M", "a", "y">>, <<"J", "u", "n">>, <<"J", "u", "l">>, <<"A", "u", "g">>,
     <<"S", "e", "p">>, <<"O", "c", "t">>, <<"N", "o", "v">>, <<"D", "e", "c">> >>

IsLeap(y) == (y % 4 = 0 /\ y % 100 # 0) \/ y % 400 = 0
DaysInYear(y) == IF IsLeap(y) THEN 366 ELSE 365
DaysInMonth(y, m) ==
  IF m = 2 THEN (IF IsLeap(y) THEN 29 ELSE 28)
  ELSE IF m \in {4, 6, 9, 11} THEN 30 ELSE 31

RECURSIVE YearOf(_, _)
\* The year that day d (counted from 0) after 1 January of year y falls in,
\* and the day within it.
YearOf(y, d) == IF d < DaysInYear(y) THEN [y |-> y, d |-> d] ELSE YearOf(y + 1, d - DaysInYear(y))

RECURSIVE MonthOf(_, _, _)
MonthOf(y, m, d) ==
  IF d < DaysInMonth(y, m) THEN [m |-> m, d |-> d + 1] ELSE MonthOf(y, m + 1, d - DaysInMonth(y, m))

\* A number in two digits.
TwoDigits(n) == IF n < 10 THEN <<"0">> \o Digits(n) ELSE Digits(n)

\* date.toUTCString() for the date at `seconds` after the epoch, as in
\* Thu, 01 Jan 1970 00:00:00 GMT
toUTCString(seconds) ==
  LET days == seconds \div 86400
      rest == seconds % 86400
      year == YearOf(1970, days)
      mon  == MonthOf(year.y, 1, year.d)
  IN  DayNames[((days + 4) % 7) + 1] \o <<",", " ">> \o TwoDigits(mon.d) \o <<" ">>
        \o MonthNames[mon.m] \o <<" ">> \o Digits(year.y) \o <<" ">>
        \o TwoDigits(rest \div 3600) \o <<":">> \o TwoDigits((rest % 3600) \div 60)
        \o <<":">> \o TwoDigits(rest % 60) \o <<" ", "G", "M", "T">>

\* this.encode(this.value)
Encoded(cookie) ==
  IF cookie.encode = "encodeURIComponent" THEN encodeURIComponent(cookie.value)
  ELSE cookie.value

\* An attribute pushed without its test.
AttributeAlways(present, text) == <<text>>

\* One attribute of the list, none when the condition fails.
Attribute(present, text) == IF present THEN <<text>> ELSE <<>>

\* CookieVar.get(): the text of the Set-Cookie header
\* `${this.name}=${this.encode(this.value)}`
NameValue(cookie) == cookie.name \o <<"=">> \o Encoded(cookie)

Serialize(cookie) ==
  Join(
    << NameValue(cookie) >>
    \o Attribute(TruthyString(cookie.domain),
                 <<"D", "o", "m", "a", "i", "n", "=">> \o Coalesce(cookie.domain, <<>>))
    \o Attribute(Len(cookie.path) > 0, <<"P", "a", "t", "h", "=">> \o cookie.path)
    \o Attribute(IsDefined(cookie.expires),
                 <<"E", "x", "p", "i", "r", "e", "s", "=">>
                   \o toUTCString(Coalesce(cookie.expires, 0)))
    \o Attribute(IsDefined(cookie.maxAge),
                 <<"M", "a", "x", "-", "A", "g", "e", "=">>
                   \o NumberText(Coalesce(cookie.maxAge, 0)))
    \o Attribute(cookie.secure, <<"S", "e", "c", "u", "r", "e">>)
    \o Attribute(cookie.httpOnly, <<"H", "t", "t", "p", "O", "n", "l", "y">>)
    \o Attribute(TruthyString(cookie.sameSite),
                 <<"S", "a", "m", "e", "S", "i", "t", "e", "=">> \o Coalesce(cookie.sameSite, <<>>))
    \o Attribute(TruthyString(cookie.priority),
                 <<"P", "r", "i", "o", "r", "i", "t", "y", "=">> \o Coalesce(cookie.priority, <<>>))
    \o Attribute(cookie.signed, <<"S", "i", "g", "n", "e", "d">>),
    <<";", " ">>)

EmptyKeyError == "Invalid cookie format: empty key"
URIError == "URIError: URI malformed"

RECURSIVE ParseLines(_, _)
\* The loop of cookieParse over the entries left, with the cookies read so far.
ParseLines(lines, cookies) ==
  IF Len(lines) = 0 THEN [ok |-> TRUE, cookies |-> cookies, error |-> ""]
  ELSE
    LET parts      == Split(lines[1], "=")
        trimmedKey == Trim(parts[1])
        valueParts == Tail(parts)
        decoded    == decodeURIComponent(Trim(Join(valueParts, <<"=">>)))
        value      == IF Len(valueParts) > 0 THEN decoded.text ELSE trimmedKey
    IN  IF Len(trimmedKey) = 0 THEN [ok |-> FALSE, cookies |-> <<>>, error |-> EmptyKeyError]
        ELSE IF Len(valueParts) > 0 /\ ~decoded.ok
          THEN [ok |-> FALSE, cookies |-> <<>>, error |-> URIError]
        ELSE ParseLines(Tail(lines),
                        Set(cookies, trimmedKey, CookieVar(trimmedKey, value, NoOptions).cookie[1]))

\* cookieParse(str): [ok, cookies, error]
cookieParse(str) ==
  IF Len(str) = 0 THEN [ok |-> TRUE, cookies |-> <<>>, error |-> ""]
  ELSE ParseLines(Split(str, ";"), <<>>)

(***************************************************************************)
(* Sessions (src/backend/Memory.ts, lines 1-63)                            *)
(*                                                                         *)
(* The Session objects ever created are the heap, a sequence of [id, data];*)
(* an object is known by its place in it, so two references are the same   *)
(* object exactly when they are the same place.                            *)
(***************************************************************************)
SessionIdError == "Session ID is required"

\* new Session(id)
NewSession(id) == [id |-> id, data |-> <<>>]

\* init without its test: a new Session is stored at every call.
initAlwaysNew(sessions, objects, sessionId) ==
  LET stored == Set(sessions, sessionId, Len(objects) + 1)
  IN  IF Len(sessionId) = 0
      THEN [ok |-> FALSE, sessions |-> sessions, heap |-> objects, value |-> NoValue,
            error |-> SessionIdError]
      ELSE [ok |-> TRUE, sessions |-> stored, heap |-> Append(objects, NewSession(sessionId)),
            value |-> Get(stored, sessionId, SessionValue), error |-> ""]

\* Memory.init(sessionId) on a machine whose sessions are `sessions`, with the
\* heap `objects`: [ok, sessions, heap, value, error]
init(sessions, objects, sessionId) ==
  LET found  == Get(sessions, sessionId, SessionValue)
      stored == Set(sessions, sessionId, Len(objects) + 1)
  IN  IF found.t # "undefined"
      THEN [ok |-> TRUE, sessions |-> sessions, heap |-> objects, value |-> found, error |-> ""]
      ELSE IF Len(sessionId) = 0
        THEN [ok |-> FALSE, sessions |-> sessions, heap |-> objects, value |-> NoValue,
              error |-> SessionIdError]
      ELSE [ok |-> TRUE, sessions |-> stored, heap |-> Append(objects, NewSession(sessionId)),
            value |-> Get(stored, sessionId, SessionValue), error |-> ""]

\* Memory.read(sessionId)
read(sessions, sessionId) == Get(sessions, sessionId, SessionValue)

\* A destroy that deletes nothing.
destroyKeeps(sessions, sessionId) == sessions

\* Memory.destroy(sessionId)
destroy(sessions, sessionId) == Delete(sessions, sessionId)

(***************************************************************************)
(* The session manager (src/backend/Manager.ts)                            *)
(***************************************************************************)
\* randomBytes(32)
RandomBytesLength == 32

\* function sessionId(), for the bytes the random source gives
sessionId(bytes) == EncodeBytes(bytes)

\* res.getHeader("Set-Cookie"): undefined, one text, or an array of texts
NoHeader == [t |-> "undefined", items |-> <<>>]
TextHeader(text) == [t |-> "string", items |-> <<text>>]
ArrayHeader(items) == [t |-> "array", items |-> items]

\* CookieHandler.setCookie(cookie) for a CookieVar: the Set-Cookie header after it
setCookie(header, cookie) == ArrayHeader(header.items \o <<Serialize(cookie)>>)

TypeErrorText == "TypeError: getValue is not a function"

\* new CookieHandler(req, res) and cookieHandler.get(name)?.getValue()
\* (lines 117-118): [kind, id, error]; id is empty when the request has no
\* such cookie.
CookieId(this, header) ==
  LET parsed == cookieParse(Coalesce(header, <<>>))
      found  == Get(parsed.cookies, this.cookieName, CookieValue)
  IN  IF ~parsed.ok THEN [kind |-> "throw", id |-> <<>>, error |-> parsed.error]
      ELSE IF found.t = "inherited" THEN [kind |-> "throw", id |-> <<>>, error |-> TypeErrorText]
      ELSE [kind |-> "return", id |-> found.text, error |-> ""]

Strict == <<"S", "t", "r", "i", "c", "t">>

\* The session cookie without the defaults of start: the options as configured.
sessionCookieAsConfigured(this, id) == CookieVar(this.cookieName, id, this.cookieOptions).cookie[1]

\* new CookieVar(this.cookieName, id, {...}) of start (lines 125-130)
sessionCookie(this, id) ==
  CookieVar(this.cookieName, id,
            Merge(this.cookieOptions,
                  [NoOptions EXCEPT
                     !.secure   = Some(Coalesce(this.cookieOptions.secure, TRUE)),
                     !.httpOnly = Some(Coalesce(this.cookieOptions.httpOnly, TRUE)),
                     !.sameSite = Some(Coalesce(this.cookieOptions.sameSite, Strict))])).cookie[1]

\* The removal cookie with the caller's options spread last: they win.
removalCookieCallerWins(name, options) ==
  CookieVar(name, <<>>,
            Merge([NoOptions EXCEPT !.expires = Some(0), !.maxAge = Some(0)], options)).cookie[1]

\* The cookie of CookieHandler.remove(name, options) (lines 260-264)
removalCookie(name, options) ==
  CookieVar(name, <<>>,
            Merge(options, [NoOptions EXCEPT !.expires = Some(0), !.maxAge = Some(0)])).cookie[1]

MachineExistsError == "Machine already exists"
CookieNameRequired == "cookieName is required"
NotRegistered == "Machine type not registered"
NotAConstructor == "TypeError: MachineClass is not a constructor"
NotAFunction == "TypeError: this.machine.read is not a function"

\* A class of the registry as a lookup's value.
ClassValue(class) == [t |-> "class", ref |-> 0, text |-> class]

\* register with the assignment alone: the last registration wins.
registerOverwrite(registry, name, machine) ==
  [ok |-> TRUE, machines |-> Set(registry, name, machine), error |-> ""]

\* register(name, machine) on the registry with own members `registry`:
\* [ok, machines, error]
register(registry, name, machine) ==
  IF Get(registry, name, ClassValue).t # "undefined"
  THEN [ok |-> FALSE, machines |-> registry, error |-> MachineExistsError]
  ELSE [ok |-> TRUE, machines |-> Set(registry, name, machine), error |-> ""]

MemoryName == <<"m", "e", "m", "o", "r", "y">>

\* interface SessionConfig
SessionConfig(cookieName, machineType, cookieOptions) ==
  [cookieName |-> cookieName, machineType |-> machineType, cookieOptions |-> cookieOptions]

\* new Manager(config) with the registry `registry`: [ok, this, error].  A new
\* Memory has no sessions; the class found under the inherited name
\* "constructor" is Object, whose instances have no methods of a machine.
Manager(registry, config) ==
  LET machineType  == Coalesce(config.machineType, MemoryName)
      MachineClass == Get(registry, machineType, ClassValue)
      this == [cookieName    |-> Coalesce(config.cookieName, <<>>),
               machineType   |-> machineType,
               cookieOptions |-> Merge([NoOptions EXCEPT !.path = Some(Slash)],
                                       Coalesce(config.cookieOptions, NoOptions)),
               machine       |-> [class    |-> IF MachineClass.t = "class"
                                               THEN MachineClass.text ELSE "Object",
                                  sessions |-> <<>>]]
  IN  IF ~TruthyString(config.cookieName)
      THEN [ok |-> FALSE, this |-> Undefined, error |-> CookieNameRequired]
      ELSE IF MachineClass.t = "undefined"
        THEN [ok |-> FALSE, this |-> Undefined, error |-> NotRegistered]
      ELSE IF MachineClass.t = "inherited"
              /\ MachineClass.text # <<"c", "o", "n", "s", "t", "r", "u", "c", "t", "o", "r">>
        THEN [ok |-> FALSE, this |-> Undefined, error |-> NotAConstructor]
      ELSE [ok |-> TRUE, this |-> Some(this), error |-> ""]

\* The condition of start's loop with the check left out.
TakenNever(this, id) == FALSE

\* The condition of start's loop as  read(id) !== null : true of every id,
\* since a missing session reads as undefined.
TakenAlways(this, id) == TRUE

\* while (this.machine.read(id))
Taken(this, id) == read(this.machine.sessions, id).t # "undefined"

(***************************************************************************)
(* The inputs of the session manager                                       *)
(***************************************************************************)
\* The most Session objects created in a run.
MaxSessions == 3

Sid == <<"s", "i", "d">>
ConstructorName == <<"c", "o", "n", "s", "t", "r", "u", "c", "t", "o", "r">>

\* What the random source gives: 32 bytes of 0, 32 bytes of 255, and the
\* bytes 7, 14, 21, ...
RandomBytes ==
  { [ i \in 1..RandomBytesLength |-> 0 ], [ i \in 1..RandomBytesLength |-> 255 ],
    [ i \in 1..RandomBytesLength |-> (7 * i) % 256 ] }

RandomIds == { sessionId(bytes) : bytes \in RandomBytes }

FirstId == sessionId([ i \in 1..RandomBytesLength |-> 0 ])

Lax == <<"L", "a", "x">>

\* The cookieOptions of a config: none; every default of start overridden
\* (secure: false, httpOnly: false, sameSite: "Lax"); and maxAge: 60 with
\* domain: "d.io" and path: "/app".
ConfigOptions ==
  { Undefined,
    Some([NoOptions EXCEPT !.secure = Some(FALSE), !.httpOnly = Some(FALSE),
                           !.sameSite = Some(Lax)]),
    Some([NoOptions EXCEPT !.maxAge = Some(60), !.domain = Some(<<"d", ".", "i", "o">>),
                           !.path = Some(<<"/", "a", "p", "p">>)]) }

\* The Cookie headers of the requests: none, "", the session cookie with a
\* stored or storable id, with an empty value, with the name of a member of
\* Object.prototype as its value, after another cookie, and the malformed
\* ones: a trailing ';', an empty key, a '%' that escapes nothing.
Headers ==
  { Undefined,
    Some(<<>>),
    Some(Sid \o <<"=">> \o FirstId),
    Some(Sid \o <<"=">>),
    Some(Sid \o <<"=">> \o ConstructorName),
    Some(<<"a", "=", "1", ";", " ">> \o Sid \o <<"=">> \o FirstId),
    Some(Sid \o <<"=">> \o FirstId \o <<";">>),
    Some(<<"=", "x">>),
    Some(Sid \o <<"=", "%">>) }

\* The Set-Cookie header of the response before the call: not set, or set to
\* "x=1" by the code that ran before, which these requests without a Cookie
\* header stand for.
Responses(header) ==
  IF header = Undefined THEN { NoHeader, TextHeader(<<"x", "=", "1">>) } ELSE { NoHeader }

\* The ids the store is called with directly.
StoreIds == { FirstId, Sid, ConstructorName, <<>> }

\* The Cookie headers manager.destroy is called with.
DestroyHeaders == { Undefined, Some(Sid \o <<"=">> \o FirstId \o <<";">>) }

(***************************************************************************)
(* One session manager and its requests                                    *)
(***************************************************************************)
\* The sessions of manager m and the heap, as a call finds them.
Snapshot(m) == [sessions |-> managers[m].machine.sessions, heap |-> heap]

\* A call and how it ended: the operation, the manager, the request's Cookie
\* header, the session id (given, read from the cookie or generated), return
\* or throw, the value returned, the error thrown, the response's Set-Cookie
\* header before and afterwards, the store as the call found it, the last
\* id the loop of start has turned down, and what the request has read last
\* from the session it was given.
Answer(op, m, header, id, kind, value, error, sent, response, before) ==
  Some([op |-> op, m |-> m, header |-> header, id |-> id, kind |-> kind, value |-> value,
        error |-> error, sent |-> sent, response |-> response, before |-> before,
        rejected |-> Undefined, got |-> Undefined])

\* The server has registered Memory and constructed its manager.
InitSessions ==
  /\ clock = 1000
  /\ made = Undefined
  /\ jwt = Undefined
  /\ issued = Undefined
  /\ token = Undefined
  /\ edit = Undefined
  /\ checked = Undefined
  /\ machines = register(<<>>, MemoryName, "Memory").machines
  /\ \E options \in ConfigOptions :
       managers = << Manager(machines, SessionConfig(Some(Sid), Some(MemoryName), options)).this[1] >>
  /\ heap = <<>>
  /\ call = Undefined
  /\ answer = Undefined
  /\ given = << <<>> >>

\* The session with this id is no longer the one start gave.
Ended(entries, id) ==
  [ i \in 1..Len(entries) |->
      IF entries[i].id = id THEN [entries[i] EXCEPT !.live = FALSE] ELSE entries[i] ]

\* No call is running and the last one has been answered.
Idle == call = Undefined /\ answer = Undefined

\* manager.start(req, res), up to the first call of the random source
Start(m, header, response) ==
  /\ Idle
  /\ m \in 1..Len(managers)
  /\ LET this == managers[m]
         c    == CookieId(this, header)
         r    == init(this.machine.sessions, heap, c.id)
     IN  IF c.kind = "throw" THEN
           /\ answer' = Answer("start", m, header, <<>>, "throw", NoValue, c.error,
                               response, response, Snapshot(m))
           /\ UNCHANGED <<managers, heap, call, given>>
         ELSE IF Len(c.id) > 0 /\ this.machine.class # "Memory" THEN
           /\ answer' = Answer("start", m, header, c.id, "throw", NoValue, NotAFunction,
                               response, response, Snapshot(m))
           /\ UNCHANGED <<managers, heap, call, given>>
         ELSE IF Len(c.id) > 0 THEN
           /\ Len(r.heap) <= MaxSessions
           /\ managers' = [managers EXCEPT ![m].machine.sessions = r.sessions]
           /\ heap' = r.heap
           /\ answer' = Answer("start", m, header, c.id, "return", r.value, "",
                               response, response, Snapshot(m))
           /\ UNCHANGED <<call, given>>
         ELSE
           /\ Len(heap) < MaxSessions
           /\ call' = Some([m |-> m, header |-> header, response |-> response,
                            id |-> Undefined])
           /\ UNCHANGED <<managers, heap, answer, given>>
  /\ UNCHANGED <<machines, jwtVars>>

\* id = sessionId() and the test of the loop; when the id is free, the rest of
\* start: the Set-Cookie header and machine.init(id) (lines 121-134)
Draw(bytes) ==
  /\ IsDefined(call)
  /\ LET m      == call[1].m
         this   == managers[m]
         id     == sessionId(bytes)
         cookie == sessionCookie(this, id)
         r      == init(this.machine.sessions, heap, id)
     IN  IF this.machine.class # "Memory" THEN
           /\ call' = Undefined
           /\ answer' = Answer("start", m, call[1].header, id, "throw", NoValue, NotAFunction,
                               call[1].response, call[1].response, Snapshot(m))
           /\ UNCHANGED <<managers, heap, given>>
         ELSE IF Taken(this, id) THEN
           /\ call' = Some([call[1] EXCEPT !.id = Some(id)])
           /\ UNCHANGED <<managers, heap, answer, given>>
         ELSE
           /\ call' = Undefined
           /\ managers' = [managers EXCEPT ![m].machine.sessions = r.sessions]
           /\ heap' = r.heap
           /\ answer' = Some([Answer("start", m, call[1].header, id, "return", r.value, "",
                                      call[1].response,
                                      setCookie(call[1].response, cookie),
                                      Snapshot(m))[1] EXCEPT !.rejected = call[1].id])
           /\ given' = [given EXCEPT ![m] =
                          Append(@, [id |-> id, ref |-> r.value.ref,
                                     cookie |-> NameValue(cookie),
                                     live |-> TRUE])]
  /\ UNCHANGED <<machines, jwtVars>>

\* manager.destroy(req, res, sessionId)
Destroy(m, header, response, id) ==
  /\ Idle
  /\ m \in 1..Len(managers)
  /\ LET this   == managers[m]
         parsed == cookieParse(Coalesce(header, <<>>))
     IN  IF ~parsed.ok THEN
           /\ answer' = Answer("destroy", m, header, id, "throw", NoValue, parsed.error,
                               response, response, Snapshot(m))
           /\ UNCHANGED <<managers, given>>
         ELSE IF this.machine.class # "Memory" THEN
           /\ answer' = Answer("destroy", m, header, id, "throw", NoValue, NotAFunction,
                               response,
                               setCookie(response, removalCookie(this.cookieName,
                                                                 this.cookieOptions)),
                               Snapshot(m))
           /\ UNCHANGED <<managers, given>>
         ELSE
           /\ managers' = [managers EXCEPT ![m].machine.sessions = destroy(@, id)]
           /\ answer' = Answer("destroy", m, header, id, "return", NoValue, "",
                               response,
                               setCookie(response, removalCookie(this.cookieName,
                                                                 this.cookieOptions)),
                               Snapshot(m))
           /\ given' = [given EXCEPT ![m] = Ended(@, id)]
  /\ UNCHANGED <<machines, heap, call, jwtVars>>

\* machine.init(sessionId), called on the manager's machine
MachineInit(m, id) ==
  /\ Idle
  /\ m \in 1..Len(managers)
  /\ managers[m].machine.class = "Memory"
  /\ LET r == init(managers[m].machine.sessions, heap, id)
     IN  /\ Len(r.heap) <= MaxSessions
         /\ managers' = [managers EXCEPT ![m].machine.sessions = r.sessions]
         /\ heap' = r.heap
         /\ answer' = Answer("init", m, Undefined, id, IF r.ok THEN "return" ELSE "throw",
                             r.value, r.error, NoHeader, NoHeader, Snapshot(m))
  /\ UNCHANGED <<machines, call, given, jwtVars>>

\* machine.read(sessionId)
MachineRead(m, id) ==
  /\ Idle
  /\ m \in 1..Len(managers)
  /\ managers[m].machine.class = "Memory"
  /\ answer' = Answer("read", m, Undefined, id, "return",
                      read(managers[m].machine.sessions, id), "", NoHeader, NoHeader,
                      Snapshot(m))
  /\ UNCHANGED <<machines, managers, heap, call, given, jwtVars>>

\* machine.destroy(sessionId)
MachineDestroy(m, id) ==
  /\ Idle
  /\ m \in 1..Len(managers)
  /\ managers[m].machine.class = "Memory"
  /\ managers' = [managers EXCEPT ![m].machine.sessions = destroy(@, id)]
  /\ answer' = Answer("machine.destroy", m, Undefined, id, "return", NoValue, "", NoHeader,
                      NoHeader, Snapshot(m))
  /\ given' = [given EXCEPT ![m] = Ended(@, id)]
  /\ UNCHANGED <<machines, heap, call, jwtVars>>

\* The key and the value a request writes to its session.
DataKey == <<"k">>

\* session.set(key, value) on the Session object the call has returned
SessionSet(key, value) ==
  /\ IsDefined(answer)
  /\ answer[1].kind = "return"
  /\ answer[1].value.t = "session"
  /\ heap' = [heap EXCEPT ![answer[1].value.ref].data = Set(@, key, value)]
  /\ UNCHANGED <<machines, managers, call, answer, given, jwtVars>>

\* The request is over: what the call answered is held no longer.
Respond ==
  /\ IsDefined(answer)
  /\ answer' = Undefined
  /\ UNCHANGED <<machines, managers, heap, call, given, jwtVars>>

\* The Cookie headers that carry back the cookie start has set.
Returning(m) == { Some(given[m][i].cookie) : i \in 1..Len(given[m]) }

\* The ids manager.destroy is called with.
DestroyIds == { FirstId, ConstructorName }

NextSessions ==
  \/ \E m \in 1..Len(managers) :
       \E header \in Headers \cup Returning(m) :
         \E response \in Responses(header) : Start(m, header, response)
  \/ \E bytes \in RandomBytes : Draw(bytes)
  \/ \E m \in 1..Len(managers), header \in DestroyHeaders, id \in DestroyIds :
       \E response \in Responses(header) : Destroy(m, header, response, id)
  \/ SessionSet(DataKey, 1)
  \/ Respond

SpecSessions == InitSessions /\ [][NextSessions]_vars

\* The store alone, called directly.
NextStore ==
  \/ \E m \in 1..Len(managers), id \in StoreIds : MachineInit(m, id)
  \/ \E m \in 1..Len(managers), id \in StoreIds : MachineRead(m, id)
  \/ \E m \in 1..Len(managers), id \in StoreIds : MachineDestroy(m, id)
  \/ SessionSet(DataKey, 1)
  \/ Respond

SpecStore == InitSessions /\ [][NextStore]_vars

(***************************************************************************)
(* The operations of a Session (src/backend/Memory.ts, lines 18-40)        *)
(***************************************************************************)
IdName == <<"i", "d">>

\* A value of a session's data, and a copy of the data, as a lookup's value.
DataValue(v) == [t |-> "value", ref |-> 0, text |-> v]
DataCopy(data) == [t |-> "object", ref |-> 0, text |-> data]

\* loadSession as Object.assign(this, data): the members of data become
\* fields of the Session, its id among them.
loadSessionAssign(session, data) ==
  [session EXCEPT !.id = IF HasKey(data, IdName) THEN Prop(data, IdName) ELSE @]

\* Session.loadSession(data): this.data = { ...data }
loadSession(session, data) == [session EXCEPT !.data = data]

\* The request holds a Session object: the one its last call returned.
Held ==
  /\ IsDefined(answer)
  /\ answer[1].kind = "return"
  /\ answer[1].value.t = "session"

\* session.get(key)
SessionGet(key) ==
  /\ Held
  /\ answer' = Some([answer[1] EXCEPT
                       !.got = Some(Get(heap[answer[1].value.ref].data, key, DataValue))])
  /\ UNCHANGED <<machines, managers, heap, call, given, jwtVars>>

\* session.delete(key)
SessionDelete(key) ==
  /\ Held
  /\ heap' = [heap EXCEPT ![answer[1].value.ref].data = Delete(@, key)]
  /\ UNCHANGED <<machines, managers, call, answer, given, jwtVars>>

\* session.loadSession(data)
SessionLoad(data) ==
  /\ Held
  /\ heap' = [heap EXCEPT ![answer[1].value.ref] = loadSession(@, data)]
  /\ UNCHANGED <<machines, managers, call, answer, given, jwtVars>>

\* session.getData()
SessionGetData ==
  /\ Held
  /\ answer' = Some([answer[1] EXCEPT
                       !.got = Some(DataCopy(heap[answer[1].value.ref].data))])
  /\ UNCHANGED <<machines, managers, heap, call, given, jwtVars>>

\* The key the requests use and the value they set, and the data they load:
\* data with a member named id.
DataKeys == { IdName }
DataText == <<"v">>
LoadedData == { <<[k |-> IdName, v |-> <<"x">>]>> }

\* The ids the store is called with while sessions are used.
SessionIds == { FirstId, Sid, ConstructorName }

\* The store and the sessions it holds, used directly.
NextSession ==
  \/ \E m \in 1..Len(managers), id \in SessionIds : MachineInit(m, id)
  \/ \E m \in 1..Len(managers), id \in SessionIds : MachineRead(m, id)
  \/ \E m \in 1..Len(managers), id \in SessionIds : MachineDestroy(m, id)
  \/ \E key \in DataKeys : SessionSet(key, DataText)
  \/ \E key \in DataKeys : SessionGet(key)
  \/ \E key \in DataKeys : SessionDelete(key)
  \/ \E data \in LoadedData : SessionLoad(data)
  \/ SessionGetData
  \/ Respond

SpecSession == InitSessions /\ [][NextSession]_vars

(***************************************************************************)
(* Claims about the session manager                                        *)
(***************************************************************************)
\* The call answered is a start that found no session cookie and returned.
CookielessStartReturned ==
  /\ IsDefined(answer)
  /\ answer[1].op = "start"
  /\ answer[1].kind = "return"
  /\ CookieId(managers[answer[1].m], answer[1].header).id = <<>>

\* C14: a start without a session cookie returns a session whose id was not
\* in the store when the call began and whose Session object did not exist
\* before the call; the sessions such calls have returned are pairwise
\* distinct objects, and two of them have the same id only when the earlier
\* one was destroyed before the later call.
C14_FreshSession ==
  /\ CookielessStartReturned =>
       /\ read(answer[1].before.sessions, answer[1].id).t = "undefined"
       /\ answer[1].value.t = "session"
       /\ answer[1].value.ref > Len(answer[1].before.heap)
       /\ heap[answer[1].value.ref].id = answer[1].id
  /\ \A m \in 1..Len(managers) :
       \A i, j \in 1..Len(given[m]) :
         i < j => /\ given[m][i].ref # given[m][j].ref
                  /\ given[m][i].id = given[m][j].id => ~given[m][i].live

\* A start without a session cookie has returned its session after the random
\* source repeated an id that was stored, with another session it gave before
\* still stored.
C14_Witness ==
  /\ CookielessStartReturned
  /\ IsDefined(answer[1].rejected)
  /\ \E i, j \in 1..Len(given[answer[1].m]) :
       /\ i < j
       /\ given[answer[1].m][i].live
       /\ given[answer[1].m][j].ref = answer[1].value.ref

\* The random source gives an id that the test of the loop lets through, and
\* the loop ends: the step Draw(bytes) takes for such bytes, as `call` shows it
\* (no other step ends a loop).
DrawFree ==
  \E bytes \in RandomBytes :
    /\ IsDefined(call)
    /\ ~Taken(managers[call[1].m], sessionId(bytes))
    /\ call' = Undefined

\* The requests that reach the loop of start, and those that fill the store
\* through a session cookie or empty it again.
NextLoop ==
  \/ \E m \in 1..Len(managers), header \in { Undefined, Some(Sid \o <<"=">> \o FirstId) } :
       Start(m, header, NoHeader)
  \/ \E bytes \in RandomBytes : Draw(bytes)
  \/ \E m \in 1..Len(managers), id \in RandomIds : Destroy(m, Undefined, NoHeader, id)
  \/ Respond

\* The session manager with a random source that, while an id outside the
\* store is among the ids it can give, does give one in the end.
SpecLoop == InitSessions /\ [][NextLoop]_vars /\ WF_call(DrawFree)

\* start is in its loop.
InLoop == IsDefined(call)

\* An id the random source can give is not in the store.
FreeIdExists ==
  /\ InLoop
  /\ \E id \in RandomIds : read(managers[call[1].m].machine.sessions, id).t = "undefined"

\* C15: a start without a session cookie that is in its loop while an id of
\* the random source is free, eventually returns a session (the random
\* source eventually giving a free id).
C15_LoopTerminates == FreeIdExists ~> CookielessStartReturned

\* start is in its loop and has turned down an id that was stored, and it
\* is the second session this manager is to give.
C15_Witness ==
  /\ FreeIdExists
  /\ IsDefined(call[1].id)
  /\ Len(given[call[1].m]) > 0

\* The call answered is a start of manager m whose Cookie header carried back
\* the cookie of entry i of the sessions m has given, not destroyed since.
StartedAgain(m, i) ==
  /\ IsDefined(answer)
  /\ answer[1].op = "start"
  /\ answer[1].m = m
  /\ i \in 1..Len(given[m])
  /\ given[m][i].live
  /\ answer[1].header = Some(given[m][i].cookie)

\* C16: a start whose session cookie is the one a start without cookie has
\* set, with no destroy of that id in between, returns the same Session
\* object as that first call, under the same id, creates no object, sets no
\* cookie, and what was written to the session before is still in its data.
C16_SameSessionAgain ==
  \A m \in 1..Len(managers) : \A i \in 1..Len(given[m]) :
    StartedAgain(m, i) =>
      LET ref == given[m][i].ref
      IN  /\ answer[1].kind = "return"
          /\ answer[1].value = SessionValue(ref)
          /\ answer[1].id = given[m][i].id
          /\ heap[ref].id = given[m][i].id
          /\ Len(heap) = Len(answer[1].before.heap)
          /\ answer[1].response = answer[1].sent
          /\ \A k \in Keys(answer[1].before.heap[ref].data) :
               /\ HasKey(heap[ref].data, k)
               /\ Prop(heap[ref].data, k) = Prop(answer[1].before.heap[ref].data, k)

\* The second start has returned the session of the first, in which the first
\* request had written.
C16_Witness ==
  \E m \in 1..Len(managers) : \E i \in 1..Len(given[m]) :
    /\ StartedAgain(m, i)
    /\ answer[1].value = SessionValue(given[m][i].ref)
    /\ HasKey(answer[1].before.heap[given[m][i].ref].data, DataKey)
    /\ HasKey(heap[given[m][i].ref].data, DataKey)

\* A Cookie header with an entry whose key is empty after trimming.
HasEmptyKey(header) ==
  /\ IsDefined(header)
  /\ Len(header[1]) > 0
  /\ \E i \in 1..Len(Split(header[1], ";")) :
       Trim(Split(Split(header[1], ";")[i], "=")[1]) = <<>>

\* C17: a start whose Cookie header has an entry with an empty key does not
\* raise: it returns a session that this call created under a generated id,
\* and sets the cookie for it.
C17_ParseErrorMeansNoSession ==
  (IsDefined(answer) /\ answer[1].op = "start" /\ HasEmptyKey(answer[1].header)) =>
    /\ answer[1].kind = "return"
    /\ answer[1].value.t = "session"
    /\ answer[1].value.ref > Len(answer[1].before.heap)
    /\ answer[1].id \in RandomIds
    /\ Len(answer[1].response.items) = Len(answer[1].sent.items) + 1

\* The attributes of a serialized cookie after its name=value.
AttributesOf(text) == { Trim(Split(text, ";")[i]) : i \in 2..Len(Split(text, ";")) }

\* The Set-Cookie text the answered call has added last.
LastSetCookie == answer[1].response.items[Len(answer[1].response.items)]

\* C18: a start that finds no session cookie adds exactly one Set-Cookie to
\* the response, after those already there; its name is the configured
\* cookieName and its value the id of the session returned; Secure and
\* HttpOnly are present unless the config sets secure / httpOnly to false,
\* and SameSite is Strict unless the config names another.
C18_OneSessionCookie ==
  CookielessStartReturned =>
    LET this    == managers[answer[1].m]
        options == this.cookieOptions
        attrs   == AttributesOf(LastSetCookie)
    IN  /\ answer[1].response.t = "array"
        /\ answer[1].response.items = Append(answer[1].sent.items, LastSetCookie)
        /\ Split(LastSetCookie, ";")[1]
             = this.cookieName \o <<"=">> \o encodeURIComponent(answer[1].id)
        /\ heap[answer[1].value.ref].id = answer[1].id
        /\ <<"S", "e", "c", "u", "r", "e">> \in attrs <=> Coalesce(options.secure, TRUE)
        /\ <<"H", "t", "t", "p", "O", "n", "l", "y">> \in attrs
             <=> Coalesce(options.httpOnly, TRUE)
        /\ { a \in attrs : Len(a) > 8 /\ SubSeq(a, 1, 9) = <<"S", "a", "m", "e", "S", "i", "t", "e", "=">> }
             = { <<"S", "a", "m", "e", "S", "i", "t", "e", "=">>
                   \o Coalesce(options.sameSite, Strict) }

\* A start without cookie, on a manager configured without cookie options,
\* has added its cookie to a response that carried one already.
C18_Witness ==
  /\ CookielessStartReturned
  /\ managers[answer[1].m].cookieOptions.secure = Undefined
  /\ answer[1].sent.t = "string"
  /\ Len(answer[1].response.items) = 2

\* The call answered is a manager.destroy.
DestroyAnswered == IsDefined(answer) /\ answer[1].op = "destroy"

\* C19: manager.destroy(req, res, id) returns, having added to the response
\* one removal cookie for the configured cookieName (empty value, Max-Age=0,
\* Expires at the epoch); afterwards read(id) finds nothing, every other
\* entry of the store is as before, and so is the whole store when id was
\* not stored.
C19_DestroyRemoves ==
  DestroyAnswered =>
    LET this   == managers[answer[1].m]
        before == answer[1].before.sessions
        after  == this.machine.sessions
        attrs  == AttributesOf(LastSetCookie)
    IN  /\ answer[1].kind = "return"
        /\ answer[1].response.items = Append(answer[1].sent.items, LastSetCookie)
        /\ Split(LastSetCookie, ";")[1] = this.cookieName \o <<"=">>
        /\ <<"M", "a", "x", "-", "A", "g", "e", "=", "0">> \in attrs
        /\ <<"E", "x", "p", "i", "r", "e", "s", "=">> \o toUTCString(0) \in attrs
        /\ read(after, answer[1].id).t = "undefined"
        /\ \A k \in Keys(before) \ { answer[1].id } :
             HasKey(after, k) /\ Prop(after, k) = Prop(before, k)
        /\ Keys(after) = Keys(before) \ { answer[1].id }
        /\ heap = answer[1].before.heap
        /\ ~HasKey(before, answer[1].id) => after = before

(***************************************************************************)
(* Claims about the in-memory store                                        *)
(***************************************************************************)
\* The call answered is this operation of the store.
StoreAnswered(op) == IsDefined(answer) /\ answer[1].op = op

\* The entries of the store as the answered call left them are those it
\* found, and no Session object was created.
StoreUntouched ==
  /\ managers[answer[1].m].machine.sessions = answer[1].before.sessions
  /\ Len(heap) = Len(answer[1].before.heap)

\* C20: init(id) returns the Session stored under id, leaving the store and
\* that Session's data as they were, or, when none is stored, creates
\* {id, data: {}}, stores it under id alone and returns it; read(id) returns
\* the Session stored under id or none, and creates and changes nothing;
\* destroy(id) removes the entry of id and nothing else.
C20_StoreContract ==
  LET before == answer[1].before.sessions
      after  == managers[answer[1].m].machine.sessions
      id     == answer[1].id
      ref    == answer[1].value.ref
  IN  /\ StoreAnswered("init") =>
           /\ answer[1].kind = "return"
           /\ answer[1].value.t = "session"
           /\ heap[ref].id = id
           /\ HasKey(after, id) /\ Prop(after, id) = ref
           /\ HasKey(before, id) =>
                /\ Prop(before, id) = ref
                /\ StoreUntouched
                /\ \A k \in Keys(answer[1].before.heap[ref].data) : HasKey(heap[ref].data, k)
           /\ ~HasKey(before, id) =>
                /\ ref = Len(answer[1].before.heap) + 1
                /\ Len(heap) = ref
                /\ heap[ref].data \in { <<>>, Set(<<>>, DataKey, 1) }
                /\ Keys(after) = Keys(before) \cup { id }
                /\ \A k \in Keys(before) : Prop(after, k) = Prop(before, k)
      /\ StoreAnswered("read") =>
           /\ answer[1].kind = "return"
           /\ StoreUntouched
           /\ IF HasKey(before, id)
              THEN answer[1].value = SessionValue(Prop(before, id))
              ELSE answer[1].value.t = "undefined"
      /\ StoreAnswered("machine.destroy") =>
           /\ answer[1].kind = "return"
           /\ Len(heap) = Len(answer[1].before.heap)
           /\ Keys(after) = Keys(before) \ { id }
           /\ \A k \in Keys(after) : Prop(after, k) = Prop(before, k)
           /\ ~HasKey(before, id) => after = before

(***************************************************************************)
(* Claims about sessions, the registry and the cookie codec                *)
(***************************************************************************)
\* C21: every Session the store of a manager holds under a key has that key
\* as its id, whatever the store and the sessions have been asked to do.
C21_IdIsKey ==
  \A m \in 1..Len(managers) :
    \A k \in Keys(managers[m].machine.sessions) :
      heap[Prop(managers[m].machine.sessions, k)].id = k

\* A stored session holds data with a member named id that is not its id,
\* and the request has read from it since.
C21_Witness ==
  /\ Held
  /\ IsDefined(answer[1].got)
  /\ \E k \in Keys(managers[1].machine.sessions) :
       /\ Prop(managers[1].machine.sessions, k) = answer[1].value.ref
       /\ HasKey(heap[answer[1].value.ref].data, IdName)
       /\ Prop(heap[answer[1].value.ref].data, IdName) # k

(***************************************************************************)
(* The registry and the construction of managers                           *)
(* (src/backend/Manager.ts, lines 44-94)                                   *)
(***************************************************************************)
\* The most managers constructed in a run.
MaxManagers == 2

FileName == <<"f", "i", "l", "e">>

\* The names and the classes register is called with.
MachineNames == { MemoryName, FileName, ConstructorName }
MachineClasses == { "Memory", "File" }

\* The configs new Manager is called with.
ManagerConfigs ==
  { SessionConfig(cookieName, machineType, Undefined) :
      cookieName \in { Some(Sid), Undefined },
      machineType \in { Undefined, Some(MemoryName), Some(FileName), Some(ConstructorName) } }

\* Nothing is registered and no manager is constructed.
InitRegistry ==
  /\ clock = 1000
  /\ made = Undefined
  /\ jwt = Undefined
  /\ issued = Undefined
  /\ token = Undefined
  /\ edit = Undefined
  /\ checked = Undefined
  /\ NoManager

\* register(name, machine)
Register(name, machine) ==
  /\ Idle
  /\ LET r == register(machines, name, machine)
     IN  /\ machines' = r.machines
         /\ answer' = Answer("register", 0, Undefined, name, IF r.ok THEN "return" ELSE "throw",
                             ClassValue(machine), r.error, NoHeader, NoHeader,
                             [sessions |-> machines, heap |-> heap])
  /\ UNCHANGED <<managers, heap, call, given, jwtVars>>

\* new Manager(config)
NewManager(config) ==
  /\ Idle
  /\ Len(managers) < MaxManagers
  /\ LET r == Manager(machines, config)
     IN  /\ managers' = IF r.ok THEN Append(managers, r.this[1]) ELSE managers
         /\ given' = IF r.ok THEN Append(given, <<>>) ELSE given
         /\ answer' = Answer("new Manager", IF r.ok THEN Len(managers) + 1 ELSE 0, Undefined,
                             Coalesce(config.machineType, MemoryName),
                             IF r.ok THEN "return" ELSE "throw", NoValue, r.error,
                             NoHeader, NoHeader, [sessions |-> machines, heap |-> heap])
  /\ UNCHANGED <<machines, heap, call, jwtVars>>

\* The registry, the managers constructed from it, and sessions created in
\* their stores.
NextRegistry ==
  \/ \E name \in MachineNames, machine \in MachineClasses : Register(name, machine)
  \/ \E config \in ManagerConfigs : NewManager(config)
  \/ \E m \in 1..Len(managers) : MachineInit(m, FirstId)
  \/ Respond

SpecRegistry == InitRegistry /\ [][NextRegistry]_vars

\* The call answered is a register.
RegisterAnswered == IsDefined(answer) /\ answer[1].op = "register"

\* C22: register of a name that is registered throws and leaves the registry
\* as it was; and at every step each registered name stays registered with
\* the class it has.
C22_AppendOnly ==
  /\ [](RegisterAnswered /\ HasKey(answer[1].before.sessions, answer[1].id)
          => answer[1].kind = "throw" /\ machines = answer[1].before.sessions)
  /\ [][\A name \in Keys(machines) :
          HasKey(machines', name) /\ Prop(machines', name) = Prop(machines, name)]_vars

\* A register of a registered name, with another class, has thrown, with a
\* second name registered.
C22_Witness ==
  /\ RegisterAnswered
  /\ answer[1].kind = "throw"
  /\ HasKey(machines, answer[1].id)
  /\ ClassValue(Prop(machines, answer[1].id)) # answer[1].value
  /\ Len(machines) = 2

\* The call answered is a new Manager.
NewManagerAnswered == IsDefined(answer) /\ answer[1].op = "new Manager"

\* C23: new Manager with a backend name that is not registered throws and
\* yields no manager; when it returns, the name was registered and the
\* manager's machine is a new instance of the registered class, with no
\* sessions.
C23_UnregisteredFails ==
  NewManagerAnswered =>
    LET registry == answer[1].before.sessions
        name     == answer[1].id
    IN  /\ ~HasKey(registry, name) => answer[1].kind = "throw" /\ answer[1].m = 0
        /\ answer[1].kind = "return" =>
             /\ HasKey(registry, name)
             /\ answer[1].m = Len(managers)
             /\ managers[answer[1].m].machine
                  = [class |-> Prop(registry, name), sessions |-> <<>>]

(***************************************************************************)
(* The cookie codec called directly (src/backend/Memory.ts, lines 92-267)  *)
(***************************************************************************)
\* The most entries of a Cookie header, and the most options of a call.
MaxEntries == 2
MaxOptions == 2

\* The sequences of at most n elements of S.
SeqUpTo(S, n) == UNION { [1..len -> S] : len \in 0..n }

\* The entries k=v of the Cookie headers: the keys a, b and __proto__, and
\* the values 1, 2, %41 (an escaped A), x=y and % (which escapes nothing).
EntryKeys == { <<"a">>, <<"b">>, Proto }
EntryValues == { <<"1">>, <<"2">>, <<"%", "4", "1">>, <<"x", "=", "y">>, <<"%">> }
Entries == { [k |-> k, v |-> v] : k \in EntryKeys, v \in EntryValues }

\* The header with these entries in this order, separated by sep.
HeaderOf(entries, sep) ==
  Join([ i \in 1..Len(entries) |-> entries[i].k \o <<"=">> \o entries[i].v ], sep)

\* cookieParse(str) for the header of these entries
Parse(entries, sep) ==
  /\ Idle
  /\ LET r == cookieParse(HeaderOf(entries, sep))
     IN  answer' = Some([op |-> "cookieParse", entries |-> entries,
                         header |-> HeaderOf(entries, sep),
                         kind |-> IF r.ok THEN "return" ELSE "throw",
                         cookies |-> r.cookies, error |-> r.error])
  /\ UNCHANGED <<machines, managers, heap, call, given, jwtVars>>

\* The options of a call as written, property by property: domain, path,
\* expires (a day after the epoch), maxAge, secure, httpOnly, sameSite,
\* priority, signed and encode (the identity).
OptionPairs ==
  { [k |-> "domain", v |-> <<"d", ".", "i", "o">>],
    [k |-> "path", v |-> <<>>],
    [k |-> "path", v |-> <<"/", "a", "p", "p">>],
    [k |-> "expires", v |-> 86400],
    [k |-> "maxAge", v |-> 3600],
    [k |-> "maxAge", v |-> 0],
    [k |-> "secure", v |-> TRUE],
    [k |-> "secure", v |-> FALSE],
    [k |-> "httpOnly", v |-> TRUE],
    [k |-> "sameSite", v |-> Lax],
    [k |-> "priority", v |-> <<"H", "i", "g", "h">>],
    [k |-> "signed", v |-> TRUE],
    [k |-> "encode", v |-> "raw"] }

\* The options object of an object literal with these properties: a property
\* written twice has its last value.
OptionsOf(pairs) ==
  [ f \in DOMAIN NoOptions |->
      IF \E i \in 1..Len(pairs) : pairs[i].k = f
      THEN Some(pairs[CHOOSE i \in 1..Len(pairs) :
                        pairs[i].k = f /\ \A j \in (i + 1)..Len(pairs) : pairs[j].k # f].v)
      ELSE Undefined ]

\* new CookieVar(name, value, options).get()
SerializeCookie(name, value, pairs) ==
  /\ Idle
  /\ LET r == CookieVar(name, value, OptionsOf(pairs))
     IN  answer' = Some([op |-> "serialize", name |-> name, value |-> value, pairs |-> pairs,
                         kind |-> IF r.ok THEN "return" ELSE "throw",
                         text |-> IF r.ok THEN Serialize(r.cookie[1]) ELSE <<>>,
                         error |-> r.error])
  /\ UNCHANGED <<machines, managers, heap, call, given, jwtVars>>

\* cookieHandler.remove(name, options): the Set-Cookie it adds
Remove(name, pairs) ==
  /\ Idle
  /\ Len(name) > 0
  /\ answer' = Some([op |-> "remove", name |-> name, pairs |-> pairs, kind |-> "return",
                     text |-> Serialize(removalCookie(name, OptionsOf(pairs))),
                     error |-> ""])
  /\ UNCHANGED <<machines, managers, heap, call, given, jwtVars>>

\* The names and the values of the cookies serialized.
CookieNames == { <<"s">>, <<>> }
CookieTexts == { <<>>, <<"a", " ", "b">> }

NextCookies ==
  \/ \E entries \in SeqUpTo(Entries, MaxEntries), sep \in { <<";">>, <<";", " ">> } :
       Parse(entries, sep)
  \/ \E name \in CookieNames, value \in CookieTexts, pairs \in SeqUpTo(OptionPairs, MaxOptions) :
       SerializeCookie(name, value, pairs)
  \/ \E pairs \in SeqUpTo(OptionPairs, MaxOptions) : Remove(<<"s">>, pairs)
  \/ Respond

SpecCookies == InitRegistry /\ [][NextCookies]_vars

\* The call answered is a cookieParse of a header of one entry or more whose
\* values can all be decoded.
ParseAnswered ==
  /\ IsDefined(answer)
  /\ answer[1].op = "cookieParse"
  /\ Len(answer[1].entries) > 0
  /\ \A i \in 1..Len(answer[1].entries) : decodeURIComponent(answer[1].entries[i].v).ok

\* The last entry with key k.
LastEntry(entries, k) ==
  entries[CHOOSE i \in 1..Len(entries) :
            entries[i].k = k /\ \A j \in (i + 1)..Len(entries) : entries[j].k # k]

\* C24: cookieParse of a header of entries k=v returns a dictionary whose
\* names are the keys of the entries, each with a cookie of that name whose
\* value is the decoded value of the last entry with that key.
C24_ParseMapsLastEntry ==
  ParseAnswered =>
    LET entries == answer[1].entries
        cookies == answer[1].cookies
    IN  /\ answer[1].kind = "return"
        /\ Keys(cookies) = { entries[i].k : i \in 1..Len(entries) }
        /\ \A k \in Keys(cookies) :
             /\ Prop(cookies, k).name = k
             /\ Prop(cookies, k).value = decodeURIComponent(LastEntry(entries, k).v).text

\* The same for headers without the key __proto__.
C24_OrdinaryKeys ==
  (ParseAnswered /\ \A i \in 1..Len(answer[1].entries) : answer[1].entries[i].k # Proto)
    => C24_ParseMapsLastEntry

\* The call answered is a serialization that returned.
SerializeAnswered ==
  IsDefined(answer) /\ answer[1].op = "serialize" /\ answer[1].kind = "return"

\* The names of the attributes in the order of the claim, Signed last.
AttributeOrder ==
  << <<"D", "o", "m", "a", "i", "n">>, <<"P", "a", "t", "h">>,
     <<"E", "x", "p", "i", "r", "e", "s">>, <<"M", "a", "x", "-", "A", "g", "e">>,
     <<"S", "e", "c", "u", "r", "e">>, <<"H", "t", "t", "p", "O", "n", "l", "y">>,
     <<"S", "a", "m", "e", "S", "i", "t", "e">>, <<"P", "r", "i", "o", "r", "i", "t", "y">>,
     <<"S", "i", "g", "n", "e", "d">> >>

\* The parts of a Set-Cookie text, and the name of a part: what stands before
\* its first "=".
PartsOf(text) == [ i \in 1..Len(Split(text, ";")) |-> Trim(Split(text, ";")[i]) ]
PartName(part) == Split(part, "=")[1]
PlaceOf(part) == CHOOSE i \in 1..Len(AttributeOrder) : AttributeOrder[i] = PartName(part)

\* The text as a set when the condition holds, the empty set otherwise.
When(present, text) == IF present THEN { text } ELSE {}

\* The attributes that these options make present, each as it is written.
PresentAttributes(options) ==
  LET eq == <<"=">>
  IN  When(TruthyString(options.domain), AttributeOrder[1] \o eq \o Coalesce(options.domain, <<>>))
      \cup When(options.path # Some(<<>>), AttributeOrder[2] \o eq \o Coalesce(options.path, Slash))
      \cup When(IsDefined(options.expires),
                AttributeOrder[3] \o eq \o toUTCString(Coalesce(options.expires, 0)))
      \cup When(IsDefined(options.maxAge),
                AttributeOrder[4] \o eq \o NumberText(Coalesce(options.maxAge, 0)))
      \cup When(options.secure = Some(TRUE), AttributeOrder[5])
      \cup When(options.httpOnly = Some(TRUE), AttributeOrder[6])
      \cup When(TruthyString(options.sameSite), AttributeOrder[7] \o eq \o Coalesce(options.sameSite, <<>>))
      \cup When(TruthyString(options.priority), AttributeOrder[8] \o eq \o Coalesce(options.priority, <<>>))
      \cup When(options.signed = Some(TRUE), AttributeOrder[9])

\* C25: the text of a cookie starts with name=encode(value); after it come
\* exactly the attributes present, in the order Domain, Path, Expires,
\* Max-Age, Secure, HttpOnly, SameSite, Priority, Signed, in whatever order
\* the options were written; Secure, HttpOnly and Signed are written without
\* a value and only when true.
C25_FixedOrder ==
  SerializeAnswered =>
    LET parts == PartsOf(answer[1].text)
        options == OptionsOf(answer[1].pairs)
    IN  /\ parts[1] = answer[1].name \o <<"=">>
                      \o (IF options.encode = Some("raw") THEN answer[1].value
                          ELSE encodeURIComponent(answer[1].value))
        /\ { parts[i] : i \in 2..Len(parts) } = PresentAttributes(options)
        /\ \A i \in 2..Len(parts) : PartName(parts[i]) \in { AttributeOrder[j] : j \in 1..Len(AttributeOrder) }
        /\ \A i, j \in 2..Len(parts) : i < j => PlaceOf(parts[i]) < PlaceOf(parts[j])

\* A cookie was serialized whose options were written against the order of
\* the text: httpOnly before a domain, with a value that is escaped.
C25_Witness ==
  /\ SerializeAnswered
  /\ Len(answer[1].pairs) = 2
  /\ answer[1].pairs[1].k = "httpOnly"
  /\ answer[1].pairs[2].k = "domain"
  /\ answer[1].value = <<"a", " ", "b">>
  /\ Len(PartsOf(answer[1].text)) = 4

\* The call answered is a removal of a cookie.
RemoveAnswered == IsDefined(answer) /\ answer[1].op = "remove"

\* Expires and Max-Age of a cookie that is removed.
EpochExpires ==
  <<"E", "x", "p", "i", "r", "e", "s", "=", "T", "h", "u", ",", " ", "0", "1", " ", "J", "a", "n", " ", "1", "9", "7", "0", " ", "0", "0", ":", "0", "0", ":", "0", "0", " ", "G", "M", "T">>
MaxAgeZero == <<"M", "a", "x", "-", "A", "g", "e", "=", "0">>

\* C26: the cookie that removes a name has an empty value, Expires at the
\* epoch and Max-Age=0, and no other Expires or Max-Age, whatever options
\* the caller gave.
C26_RemovalForced ==
  RemoveAnswered =>
    LET parts == PartsOf(answer[1].text)
        rest == { parts[i] : i \in 2..Len(parts) }
    IN  /\ parts[1] = answer[1].name \o <<"=">>
        /\ { p \in rest : PartName(p) = AttributeOrder[3] } = { EpochExpires }
        /\ { p \in rest : PartName(p) = AttributeOrder[4] } = { MaxAgeZero }

\* A cookie was removed with options that give a later expires and a
\* positive maxAge.
C26_Witness ==
  /\ RemoveAnswered
  /\ OptionsOf(answer[1].pairs).expires = Some(86400)
  /\ OptionsOf(answer[1].pairs).maxAge = Some(3600)
  /\ EpochExpires \in { PartsOf(answer[1].text)[i] : i \in 1..Len(PartsOf(answer[1].text)) }

(***************************************************************************)
(* Requests in flight together (src/backend/Server.ts, lines 107-170).     *)
(* The callback of a request is an async function: callbacks interleave    *)
(* where one awaits.  Manager.start (src/backend/Manager.ts, lines         *)
(* 116-135) is a synchronous method without an await, so from its first    *)
(* line to its return no other callback runs.  Here call holds the         *)
(* requests received, each with its place in start: "received" before      *)
(* line 159 of Server.ts, "check" at the test of the loop (line 122) and   *)
(* "init" at line 134.                                                     *)
(***************************************************************************)
\* The most requests in flight.
MaxRequests == 2

\* No callback runs inside start while another is inside it.
RunningNone(calls) == {}

\* The calls that are inside start.
Running(calls) == { i \in 1..Len(calls) : calls[i].pos \in { "check", "init" } }

\* The calls without the i-th.
Without(calls, i) == [ j \in 1..(Len(calls) - 1) |-> IF j < i THEN calls[j] ELSE calls[j + 1] ]

\* A request without a Cookie header is received.
Arrive(m) ==
  /\ m \in 1..Len(managers)
  /\ Len(call) < MaxRequests
  /\ Len(heap) + Len(call) < MaxSessions
  /\ call' = Append(call, [m |-> m, pos |-> "received", id |-> <<>>, rejected |-> Undefined])
  /\ UNCHANGED <<machines, managers, heap, answer, given, jwtVars>>

\* The callback of the i-th request reaches start: no cookie, id = sessionId()
\* (lines 117-121)
Enter(i, bytes) ==
  /\ i \in 1..Len(call)
  /\ call[i].pos = "received"
  /\ Running(call) = {}
  /\ call' = [call EXCEPT ![i].pos = "check", ![i].id = sessionId(bytes)]
  /\ UNCHANGED <<machines, managers, heap, answer, given, jwtVars>>

\* while (this.machine.read(id)) { id = sessionId(); } (lines 122-124)
Check(i, bytes) ==
  /\ i \in 1..Len(call)
  /\ call[i].pos = "check"
  /\ call' = IF Taken(managers[call[i].m], call[i].id)
             THEN [call EXCEPT ![i].id = sessionId(bytes), ![i].rejected = Some(call[i].id)]
             ELSE [call EXCEPT ![i].pos = "init"]
  /\ UNCHANGED <<machines, managers, heap, answer, given, jwtVars>>

\* cookieHandler.setCookie(sessionCookie); return this.machine.init(id)
\* (lines 125-134)
InitStep(i) ==
  /\ i \in 1..Len(call)
  /\ call[i].pos = "init"
  /\ LET m == call[i].m
         this == managers[m]
         r == init(this.machine.sessions, heap, call[i].id)
     IN  /\ managers' = [managers EXCEPT ![m].machine.sessions = r.sessions]
         /\ heap' = r.heap
         /\ given' = [given EXCEPT ![m] =
                        Append(@, [id |-> call[i].id, ref |-> r.value.ref,
                                   cookie |-> NameValue(sessionCookie(this, call[i].id)),
                                   live |-> TRUE, others |-> Len(call) - 1,
                                   rejected |-> call[i].rejected])]
  /\ call' = Without(call, i)
  /\ UNCHANGED <<machines, answer, jwtVars>>

NextRequests ==
  \/ \E m \in 1..Len(managers) : Arrive(m)
  \/ \E i \in 1..MaxRequests, bytes \in RandomBytes : Enter(i, bytes)
  \/ \E i \in 1..MaxRequests, bytes \in RandomBytes : Check(i, bytes)
  \/ \E i \in 1..MaxRequests : InitStep(i)

SpecRequests == InitSessions /\ [][NextRequests]_vars

\* C27: of the starts without a cookie that returned, no two on one manager
\* were given the same id or the same Session, however the requests were
\* received and their callbacks were run.
C27_CheckThenInitAtomic ==
  \A m \in 1..Len(given) :
    \A i, j \in 1..Len(given[m]) :
      i # j => /\ given[m][i].id # given[m][j].id
               /\ given[m][i].ref # given[m][j].ref

\* Two starts returned of which the first ran while the other request was
\* already received, and the second drew the id of the first and drew again.
C27_Witness ==
  /\ Len(given[1]) = 2
  /\ given[1][1].others = 1
  /\ given[1][2].rejected = Some(given[1][1].id)

(***************************************************************************)
(* Claims about the cookie a request carries and the life of a session     *)
(***************************************************************************)
\* The ids that the Cookie header carries for the manager's cookie: the
\* values v of its entries sid=v, for the ids of the model.
CarriedIds(header) ==
  IF header = Undefined THEN {}
  ELSE { v \in RandomIds \cup { ConstructorName } :
           \E i \in 1..Len(Split(header[1], ";")) :
             Trim(Split(header[1], ";")[i]) = Sid \o <<"=">> \o v }

\* What C28 says of a start that carried the id v.
UsedVerbatim(v) ==
  LET a == answer[1]
      now == managers[a.m].machine.sessions
  IN  /\ a.kind = "return"
      /\ a.id = v
      /\ a.rejected = Undefined
      /\ a.value.t = "session"
      /\ heap[a.value.ref].id = v
      /\ HasKey(now, v)
      /\ Prop(now, v) = a.value.ref
      /\ IF HasKey(a.before.sessions, v)
         THEN /\ a.value.ref = Prop(a.before.sessions, v)
              /\ Len(heap) = Len(a.before.heap)
         ELSE /\ a.value.ref = Len(a.before.heap) + 1
              /\ Len(heap) = Len(a.before.heap) + 1
      /\ a.response = a.sent
      /\ Keys(now) = Keys(a.before.sessions) \cup { v }
      /\ \A k \in Keys(a.before.sessions) \ { v } :
           /\ Prop(now, k) = Prop(a.before.sessions, k)
           /\ heap[Prop(now, k)] = a.before.heap[Prop(now, k)]

\* C28: a start whose request carries a session cookie with a value returns
\* the Session stored under that value, made now if none was stored, draws
\* no other id, adds no Set-Cookie and leaves the other sessions as they were.
C28_CookieIdUsed ==
  (IsDefined(answer) /\ answer[1].op = "start") =>
    \A v \in CarriedIds(answer[1].header) : UsedVerbatim(v)

\* The same for ids that Object.prototype does not define, on headers that
\* cookieParse accepts.
C28_OrdinaryIds ==
  (IsDefined(answer) /\ answer[1].op = "start" /\ cookieParse(Coalesce(answer[1].header, <<>>)).ok) =>
    \A v \in CarriedIds(answer[1].header) \ ObjectPrototype : UsedVerbatim(v)

\* A start has just returned on manager m to a request that carried the
\* cookie given with the i-th session, which destroy has removed since.
StartAfterDestroy(m, i) ==
  /\ answer = Undefined
  /\ IsDefined(answer')
  /\ answer'[1].op = "start"
  /\ answer'[1].m = m
  /\ i \in 1..Len(given[m])
  /\ ~given[m][i].live
  /\ answer'[1].header = Some(given[m][i].cookie)

\* C29: an entry of a store and its Session stay as they are across every
\* step but a destroy of that id on that store; and a start that carries the
\* cookie of a session destroyed returns a Session other than the destroyed
\* one, which is a new Session without data when the id is stored no more.
C29_Lifetime ==
  /\ [][\A m \in 1..Len(managers) :
          \A k \in Keys(managers[m].machine.sessions) :
            LET ref == Prop(managers[m].machine.sessions, k)
            IN  \/ /\ HasKey(managers'[m].machine.sessions, k)
                   /\ Prop(managers'[m].machine.sessions, k) = ref
                   /\ heap'[ref].id = heap[ref].id
                \/ /\ IsDefined(answer')
                   /\ answer'[1].op = "destroy"
                   /\ answer'[1].m = m
                   /\ answer'[1].id = k]_vars
  /\ [][\A m \in 1..Len(managers) : \A i \in 1..Len(given[m]) :
          StartAfterDestroy(m, i) =>
            /\ answer'[1].kind = "return"
            /\ answer'[1].value.t = "session"
            /\ answer'[1].value.ref # given[m][i].ref
            /\ heap'[answer'[1].value.ref].id = given[m][i].id
            /\ ~HasKey(managers[m].machine.sessions, given[m][i].id) =>
                 /\ answer'[1].value.ref = Len(heap) + 1
                 /\ heap'[answer'[1].value.ref].data = <<>>]_vars

\* A session that held data was destroyed, and a start with its cookie has
\* returned another Session, which holds none.
C29_Witness ==
  /\ IsDefined(answer)
  /\ answer[1].op = "start"
  /\ answer[1].kind = "return"
  /\ answer[1].value.t = "session"
  /\ \E i \in 1..Len(given[answer[1].m]) :
       LET g == given[answer[1].m][i]
       IN  /\ ~g.live
           /\ answer[1].header = Some(g.cookie)
           /\ heap[g.ref].data # <<>>
           /\ answer[1].value.ref > Len(answer[1].before.heap)
           /\ heap[answer[1].value.ref].data = <<>>

(***************************************************************************)
(* Codecs with different keys (src/unnamed/part_010)                       *)
(***************************************************************************)
\* Three keys of 32 characters or more: KeyOf(32), the same with another last
\* character, and KeyOf(33).
SecretKeys ==
  { KeyOf(MinKeyLength),
    [KeyOf(MinKeyLength) EXCEPT ![MinKeyLength] = "j"],
    KeyOf(MinKeyLength + 1) }

\* The verifying instances and the issuing instances, under every key.
KeyVerifiers ==
  { Constructor(Options(Some(key), Undefined, Undefined, i, a)).this :
      key \in SecretKeys, i \in { Undefined, Some(Me) }, a \in { Undefined, Some(Us) } }

KeyIssuers ==
  { Constructor(Options(Some(key), Undefined, e, i, a)).this[1] :
      key \in SecretKeys,
      e \in { Undefined, Some(0 - 1), Some(1) },
      i \in { Undefined, Some(Me) },
      a \in { Undefined, Some(Us) } }

InitKeys ==
  /\ clock = 1000
  /\ made = Undefined
  /\ jwt \in KeyVerifiers
  /\ issued = Undefined
  /\ token = Undefined
  /\ edit = Undefined
  /\ checked = Undefined
  /\ NoManager

NextKeys ==
  \/ \E other \in KeyIssuers, payload \in { PlainPayload, ClaimsPayload } : Issue(other, payload)
  \/ Tick
  \/ Verify

SpecKeys == InitKeys /\ [][NextKeys]_vars

\* header.payload of a token: what its signature signs.
SignedPart(text) == Split(text, ".")[1] \o <<".">> \o Split(text, ".")[2]

\* The token verified was generated by a codec with another key, under which
\* the HMAC of what is signed differs.
CheckedOtherKey ==
  /\ IsDefined(checked)
  /\ IsDefined(issued)
  /\ token = Some(issued[1].out.token)
  /\ issued[1].by.key # jwt[1].key
  /\ Hmac(issued[1].by.key, SignedPart(token[1])) # Hmac(jwt[1].key, SignedPart(token[1]))

\* C30: verify returns null for a token that a codec with another key
\* generated, whatever the payload, the expiry, the issuer and the audience
\* of the two codecs, when the HMAC differs under the two keys.
C30_KeySeparation == CheckedOtherKey => checked[1].value = JNull

\* A token of another key was rejected that its issuer's codec accepts at the
\* same time, and that the verifier would accept for issuer and audience.
C30_Witness ==
  /\ CheckedOtherKey
  /\ checked[1].value = JNull
  /\ verify(issued[1].by, token[1], clock).value # JNull
  /\ issued[1].by.issuer = jwt[1].issuer
  /\ issued[1].by.audience = jwt[1].audience

====
